---- MODULE Spec2Model ----
(***************************************************************************)
(* The Outlook mailbox bridge of openclaw: the poll loop of                *)
(* monitorOutlookEmail, processMessage with its buffering reply sink, the  *)
(* cancellable sleep, and the provider calls of graph.ts they make.        *)
(*                                                                         *)
(* The monitor is one async task.  Its position `pc` is the await it is    *)
(* suspended at; every action below is the completion of that await        *)
(* together with all the synchronous code that runs up to the next await.  *)
(* The host runtime (dispatchReplyFromConfig and its dispatcher), the mail *)
(* provider and the holder of the AbortController are the environment.     *)
(*                                                                         *)
(* Spec is the monitor.  ListSpec applies listUnreadMessages to a stub     *)
(* transport, KeySpec applies the session-key derivation of processMessage *)
(* to pairs of senders, and TokenSpec is getGraphAccessToken with its      *)
(* module-level cache under concurrent callers and a moving clock; the     *)
(* variables of the parts a specification is not about stay at rest in it. *)
(***************************************************************************)
EXTENDS Integers, Sequences, FiniteSets, TLC

\* ------------------------------------------------------------------ bounds
\* Number of inbound messages that ever arrive in the mailbox.
NMsgs == 2
\* Number of chunks the host runtime hands to reply sinks in one run.
MaxChunks == 2
\* Number of poll cycles the monitor starts in one run.
MaxCycles == 2
\* Messages in the stub transport's mailbox, and distinct receive times.
MaxStore == 3
MaxTime == 3
\* Length of a sender address, in characters.
MaxAddr == 2
\* Process restarts between two messages of one sender.
MaxBoots == 1
\* Token requests sent to the token endpoint in one run.
MaxRequests == 2
\* Operations of graph.ts invoked in one run.
MaxOps == 2
\* Chunks the dispatcher hands to one message's reply sink.
MaxSinkChunks == 3
\* Characters of a configured string (credentials, mailbox).
MaxStr == 1
\* Messages waiting in the mailbox when the monitor starts on a backlog.
MaxBacklog == 21
\* The last poll cycle in which a call made for the backlog may fail.
MaxFailCycles == 1
\* Dispatches of the backlog that throw.
MaxThrows == 1
\* Models given to runBenchmark, and the largest --concurrency.
MaxModels == 4
MaxConcurrency == 2

\* ------------------------------------------------------- program constants
\* listUnreadMessages(creds, mailbox, top = 20)
DefaultTop == 20
\* tokenCache.expiresAt > now + 60_000
RefreshSkewMs == 60000
\* for i in {1..60}: the readiness checks of start_mlx.
ReadyChecks == 60

MsgIds == 1..NMsgs
\* The tasks of the process that call getGraphAccessToken, the credential
\* sets they hold, and how the token endpoint can answer.
Callers == {"c1", "c2"}
CredSets == {"A", "B"}
TokenOutcomes == {"ok", "non2xx", "network"}
\* expires_in of a token response, in seconds.
ExpiresIn == {3600, 3000}
\* The operations of graph.ts, the HTTP statuses the provider answers with
\* and the texts of its responses.
Ops == {"list", "markRead", "reply", "createReply", "sendMail"}
Statuses == {200, 204, 404, 500}
Bodies == {"r1", "r2"}
\* The instants, in ms, at which the clock is read.
Instants == <<0, 3000000, 3540000, 3545000>>
\* payload.text of the k-th chunk the host runtime hands out: either no text
\* ("", falsy) or a text of its own, so that a body shows which chunks it holds.
Letters == <<"a", "b", "c", "d", "e", "f", "g", "h">>
Texts(k) == {"", Letters[k]}
\* The kind the dispatcher tags a chunk with; "block" is an interim chunk.
Kinds == {"block", "final"}
Outcomes == {"ok", "fail"}

VARIABLES
    cfg,            \* channels.outlook as resolved at monitor start
    mail,           \* provider: id -> "absent" | "unread" | "read"
    aborted,        \* abortSignal.aborted
    pc,             \* the await the monitor task is suspended at
    timer,          \* the setTimeout of the current sleep
    listeners,      \* "abort" listeners the monitor has registered on the signal
    cycle,          \* poll cycles started so far
    messages,       \* result of this cycle's listUnreadMessages
    idx,            \* position of the for loop in `messages`
    replyBuffer,    \* processMessage's replyBuffer
    delivered,      \* history: id -> chunks handed to that message's deliver
    outbox,         \* history: replyToMessage / createDraftReply calls issued
    dispatched,     \* history: id -> number of dispatchReplyFromConfig calls
    thrown,         \* history: ids whose dispatch threw
    idle,           \* history: the dispatch-idle notification of the last
                    \* processMessage call: "clear" (none outstanding),
                    \* "entered" (call entered, no dispatcher yet), "owed"
                    \* (dispatch started, markDispatchIdle not yet called),
                    \* "unsent" (call exited without markDispatchIdle)
    pollErr,        \* what this cycle's "poll cycle error" log was caused by
    abortedInSleep, \* the signal was raised while the monitor was sleeping
    \* listUnreadMessages against a stub transport (ListSpec)
    lsStore,        \* receive times of the unread messages, in storage order
    lsHonours,      \* whether the transport applies $orderby
    lsPc,           \* "idle" | "awaiting" | "done"
    lsReq,          \* the query parameters of the request sent
    lsResp,         \* data.value of the transport's response
    lsOut,          \* what listUnreadMessages returned or that it threw
    \* the session key of processMessage (KeySpec)
    senders,        \* msg.from of two inbound messages
    keys,           \* history: the session key computed for each, with the
                    \* process incarnation that computed it
    boots,          \* process restarts so far
    \* getGraphAccessToken (TokenSpec)
    credsOf,        \* caller -> the credential set it calls with
    clock,          \* Date.now(), in ms
    tokenCache,     \* the module-level tokenCache
    call,           \* caller -> its current or last getGraphAccessToken call
    requests,       \* history: the token requests sent, in order
    \* the operations of graph.ts and outbound sendText (ClientSpec)
    opc,            \* the operation of graph.ts in progress or last ended
    sent,           \* history: the provider requests sent, in order
    snd,            \* the sendText call in progress or last ended
    mailCalls,      \* history: the operations of graph.ts invoked, in order
    \* deliver with the outcome of its provider calls (SinkSpec)
    flushLog,       \* history: outcome of each call in outbox
    \* the config functions of the plugin (ConfigSpec)
    conf,           \* the configuration and the environment variables
    confOut,        \* what each config function returned for conf
    bench,          \* runBenchmark: its loop, its `running` set, the models
    svc             \* `openclaw start`: the script, the MLX server, the gateway

monVars == <<cfg, mail, aborted, pc, timer, listeners, cycle, messages, idx,
             replyBuffer, delivered, outbox, dispatched, thrown, idle, pollErr,
             abortedInSleep>>
lsVars == <<lsStore, lsHonours, lsPc, lsReq, lsResp, lsOut>>
keyVars == <<senders, keys, boots>>
tokVars == <<credsOf, clock, tokenCache, call, requests>>

\* What the monitor leaves alone.
cliVars == <<opc, sent, snd, mailCalls>>
sinkVars == <<flushLog>>
confVars == <<conf, confOut>>
toolVars == <<bench, svc>>

\* What the monitor leaves alone, and likewise for the other parts.
otherVars == <<lsVars, keyVars, tokVars, cliVars, sinkVars, confVars,
    toolVars>>
besideList == <<monVars, keyVars, tokVars, cliVars, sinkVars, confVars,
    toolVars>>
besideKey == <<monVars, lsVars, tokVars, cliVars, sinkVars, confVars,
    toolVars>>
besideToken == <<monVars, lsVars, keyVars, cliVars, sinkVars, confVars,
    toolVars>>

vars == <<monVars, lsVars, keyVars, tokVars, cliVars, sinkVars, confVars,
    toolVars>>

\* ------------------------------------------------------------ pure helpers
Min(a, b) == IF a <= b THEN a ELSE b

RECURSIVE SumLen(_, _)
SumLen(f, S) ==
    IF S = {} THEN 0
    ELSE LET x == CHOOSE y \in S : TRUE IN Len(f[x]) + SumLen(f, S \ {x})

\* Chunks the host runtime has handed out so far.
ChunksDelivered == SumLen(delivered, MsgIds)

\* replyBuffer.join("\n\n")
RECURSIVE JoinBlank(_)
JoinBlank(buf) ==
    IF Len(buf) = 0 THEN ""
    ELSE IF Len(buf) = 1 THEN buf[1]
    ELSE buf[1] \o "\n\n" \o JoinBlank(Tail(buf))

\* Variant of PushText that buffers a chunk without text too.
PushTextAlways(buf, text) == Append(buf, text)
\* if (payload.text) replyBuffer.push(payload.text)
PushText(buf, text) == IF text # "" THEN Append(buf, text) ELSE buf

\* Variant of ShouldFlush that does not test the kind.
FlushOnAnyKind(kind, buf) == Len(buf) > 0
\* if (kind === "final" && replyBuffer.length > 0)
ShouldFlush(kind, buf) == kind = "final" /\ Len(buf) > 0

\* Variant of DraftOnlyOf that takes an unset draftOnly for false.
DraftOnlyWhenTrue(oc) == oc.draftOnly = "true"
\* const draftOnly = oc?.draftOnly !== false
DraftOnlyOf(oc) == oc.draftOnly # "false"

\* if (draftOnly) createDraftReply(...) else replyToMessage(...)
FlushOp(draftOnly) == IF draftOnly THEN "createReply" ELSE "reply"

\* Variant of PreconditionOk that does not trim the mailbox.
PreconditionNoTrim(oc) == oc.credsOk /\ oc.mailbox # "none"
\* if (!creds) return;  if (!mailbox) return;
PreconditionOk(oc) == oc.credsOk /\ oc.mailbox = "set"

\* The provider's answer to $filter=isRead eq false, $orderby=receivedDateTime
\* asc, $top=top.  Ids are numbered in receive-time order.
Ascending(S) ==
    [i \in 1..Cardinality(S) |->
        CHOOSE x \in S : Cardinality({y \in S : y < x}) = i - 1]

\* Variant of ListUnreadResponse that answers with the newest unread ones.
ListUnreadNewest(m, top) ==
    LET all == Ascending({i \in DOMAIN m : m[i] = "unread"})
    IN SubSeq(all, Len(all) - Min(top, Len(all)) + 1, Len(all))
ListUnreadResponse(m, top) ==
    LET all == Ascending({i \in DOMAIN m : m[i] = "unread"})
    IN SubSeq(all, 1, Min(top, Len(all)))

\* The sequences over S of length at most n.
RECURSIVE SeqsUpTo(_, _)
SeqsUpTo(S, n) ==
    IF n = 0 THEN {<<>>}
    ELSE LET shorter == SeqsUpTo(S, n - 1)
         IN shorter \cup {Append(q, x) : q \in shorter, x \in S}

\* listUnreadMessages(creds, mailbox, top = 20): the argument is omitted
\* (<<>>) or given (<<n>>).
TopOf(topArg) == IF topArg = <<>> THEN DefaultTop ELSE topArg[1]

\* Variant of ListUnreadRequest that asks for the newest first.
ListUnreadRequestDescending(topArg) ==
    [filter |-> "isRead eq false",
     orderby |-> "receivedDateTime desc",
     top |-> TopOf(topArg)]
\* The URLSearchParams of listUnreadMessages.
ListUnreadRequest(topArg) ==
    [filter |-> "isRead eq false",
     orderby |-> "receivedDateTime asc",
     top |-> TopOf(topArg)]

\* const data = await res.json(); return data.value
ListUnreadValue(value) == value

\* The stub transport's messages: id is the storage position, t the receive
\* time.
StoredMessages(store) == [i \in 1..Len(store) |-> [id |-> i, t |-> store[i]]]

\* Whether x comes before y in the direction asked for.
Before(x, y, dir) == IF dir = "asc" THEN x.t < y.t ELSE x.t > y.t

\* msgs with x inserted before the first element it comes before.
RECURSIVE InsertBy(_, _, _)
InsertBy(x, msgs, dir) ==
    IF Len(msgs) = 0 THEN <<x>>
    ELSE IF Before(x, msgs[1], dir) THEN <<x>> \o msgs
    ELSE <<msgs[1]>> \o InsertBy(x, Tail(msgs), dir)

RECURSIVE SortBy(_, _)
SortBy(msgs, dir) ==
    IF Len(msgs) = 0 THEN <<>>
    ELSE InsertBy(msgs[Len(msgs)], SortBy(SubSeq(msgs, 1, Len(msgs) - 1), dir),
                  dir)

\* What the transport answers to the request: a transport that applies
\* $orderby sorts as asked, one that does not answers in storage order; both
\* apply $top.
TransportResponse(store, req, honours) ==
    LET all == StoredMessages(store)
        ordered == IF ~honours THEN all
                   ELSE IF req.orderby = "receivedDateTime asc"
                        THEN SortBy(all, "asc")
                   ELSE IF req.orderby = "receivedDateTime desc"
                        THEN SortBy(all, "desc")
                   ELSE all
    IN SubSeq(ordered, 1, Min(req.top, Len(ordered)))

NonDecreasing(msgs) ==
    \A i \in 1..(Len(msgs) - 1) : msgs[i].t <= msgs[i + 1].t

\* tokenCache = null
NullCache == [set |-> FALSE, token |-> 0, expiresAt |-> 0]

\* Variant of CacheValid that still takes a token with exactly the skew left.
CacheValidAtSkew(cache, now) ==
    cache.set /\ cache.expiresAt >= now + RefreshSkewMs
\* if (tokenCache && tokenCache.expiresAt > now + 60_000)
CacheValid(cache, now) ==
    cache.set /\ cache.expiresAt > now + RefreshSkewMs

\* Variant of CacheAfterFailure that drops the cached token.
CacheClearedOnFailure(cache) == NullCache
\* if (!res.ok) { ...; throw ... }: the throw comes before the assignment to
\* tokenCache, which keeps what it held.
CacheAfterFailure(cache) == cache

\* Variant of CacheWrite that keeps the later of the two expiries.
CacheWriteMaxExpiry(cache, token, now, expiresIn) ==
    [set |-> TRUE, token |-> token,
     expiresAt |-> IF cache.set /\ cache.expiresAt > now + expiresIn * 1000
                   THEN cache.expiresAt ELSE now + expiresIn * 1000]
\* Variant of CacheWrite that replaces the token and keeps a set expiry.
CacheWriteTokenOnly(cache, token, now, expiresIn) ==
    [set |-> TRUE, token |-> token,
     expiresAt |-> IF cache.set THEN cache.expiresAt ELSE now + expiresIn * 1000]
\* tokenCache = { token: data.access_token, expiresAt: now + data.expires_in * 1000 }
CacheWrite(cache, token, now, expiresIn) ==
    [set |-> TRUE, token |-> token, expiresAt |-> now + expiresIn * 1000]

\* Variant of ResOk that takes 200 alone for a success.
ResOkOnly200(status) == status = 200
\* Response.ok
ResOk(status) == status >= 200 /\ status <= 299

\* The name each operation gives itself in its error.
FailLabel(op) ==
    CASE op = "list" -> "list messages"
      [] op = "markRead" -> "mark-as-read"
      [] op = "reply" -> "reply"
      [] op = "createReply" -> "createReply"
      [] op = "sendMail" -> "sendMail"

\* new Error(`outlook ... failed ${res.status}: ${text}`)
ErrorOf(op, status, text) ==
    "outlook " \o FailLabel(op) \o " failed " \o ToString(status) \o ": " \o text

\* What the operation returns from a response that is ok: data.value,
\* draft.id, or nothing.
ValueOf(op, text) == IF op \in {"list", "createReply"} THEN text ELSE ""

\* Variant of SendsAfterToken that goes on to the provider without a token.
SendsRegardless(outcome) == TRUE
\* const token = await getGraphAccessToken(creds): the fetch that follows
\* runs only when the await returned normally.
SendsAfterToken(outcome) == outcome = "ok"

\* Variant of MessageToolHints that warns only when draftOnly is true.
MessageToolHintsWhenTrue(oc) ==
    <<"channel=outlook sends email">>
    \o (IF oc.draftOnly = "true"
        THEN <<"outlook is in draft-only mode: sent messages land in Drafts for review">>
        ELSE <<>>)
\* agentPrompt.messageToolHints
MessageToolHints(oc) ==
    <<"channel=outlook sends email">>
    \o (IF oc.draftOnly # "false"
        THEN <<"outlook is in draft-only mode: sent messages land in Drafts for review">>
        ELSE <<>>)

\* Variant of SendTextSubject that takes the subject from nowhere.
SendTextNoSubject == ""
\* sendNewMail(creds, mailbox, ctx.to, "Message from OpenClaw", ctx.text)
SendTextSubject == "Message from OpenClaw"

\* The characters of sender addresses and their case pairs.
AddrChars == {"a", "A", "b", "B"}
CasePairs == {{"a", "A"}, {"b", "B"}}

\* String.prototype.toLowerCase, character by character.
LowerChar(c) == CASE c = "A" -> "a" [] c = "B" -> "b" [] OTHER -> c
ToLowerCase(chars) == [i \in 1..Len(chars) |-> LowerChar(chars[i])]

\* The string made of the characters.
RECURSIVE Concat(_)
Concat(chars) ==
    IF Len(chars) = 0 THEN "" ELSE chars[1] \o Concat(Tail(chars))

\* msg.from?.emailAddress?.address ?? "unknown"
SenderAddress(from) ==
    IF from.has THEN from.addr ELSE <<"u", "n", "k", "n", "o", "w", "n">>

\* Variant of SessionKeyOf that keeps the case of the address.
SessionKeyKeepCase(from) == "outlook:" \o Concat(SenderAddress(from))
\* `outlook:${senderAddress.toLowerCase()}`
SessionKeyOf(from) == "outlook:" \o Concat(ToLowerCase(SenderAddress(from)))

\* Two addresses that differ in the case of letters at most.
EqIgnoreCase(a, b) ==
    /\ Len(a) = Len(b)
    /\ \A i \in 1..Len(a) : a[i] = b[i] \/ {a[i], b[i]} \in CasePairs

\* Variant of MarkReadEffect whose request leaves the read flag alone.
MarkReadNoEffect(m, id) == m
\* PATCH { isRead: true } as the provider applies it.
MarkReadEffect(m, id) == [m EXCEPT ![id] = "read"]

\* Variant of ProceedAfterMarkRead that goes on after a failed markAsRead.
ProceedRegardless(outcome) == TRUE
\* `await markAsRead(...)` throws on failure, so the rest of processMessage
\* runs only after it returned normally.
ProceedAfterMarkRead(outcome) == outcome = "ok"

\* Variant of AbortListener that clears the timer and rejects nothing.
AbortListenerNoReject(t) == "dropped"
\* Variant of AbortListener that neither clears the timer nor rejects.
AbortListenerKeepsTimer(t) == t
\* The "abort" listener of sleep: clearTimeout(timer); reject(signal.reason).
\* A timer that is cleared stands for a sleep promise that is rejected.
AbortListener(t) == IF t = "pending" THEN "cleared" ELSE t

\* ------------------------------------------------------------------- Init
\* No call of listUnreadMessages against the stub transport.
NoRequest == [filter |-> "", orderby |-> "", top |-> 0]
NotReturned == [status |-> "none", value |-> <<>>]
ListAtRest ==
    /\ lsStore = <<>>
    /\ lsHonours = TRUE
    /\ lsPc = "idle"
    /\ lsReq = NoRequest
    /\ lsResp = <<>>
    /\ lsOut = NotReturned

\* No session key computed.
NoSender == [has |-> FALSE, addr |-> <<>>]
KeyAtRest ==
    /\ senders = <<NoSender, NoSender>>
    /\ keys = <<>>
    /\ boots = 0

\* No call of getGraphAccessToken made.
NoCall == [pc |-> "idle", now |-> 0, req |-> 0, token |-> 0]
TokenAtRest ==
    /\ credsOf = [c \in Callers |-> "A"]
    /\ clock = 0
    /\ tokenCache = NullCache
    /\ call = [c \in Callers |-> NoCall]
    /\ requests = <<>>

\* No operation of graph.ts and no sendText called.
NoResult == [kind |-> "none", value |-> "", error |-> ""]
NoOp == [op |-> "", pc |-> "idle", now |-> 0, req |-> 0, status |-> 0,
         text |-> "", result |-> NoResult]
NoSend == [pc |-> "idle", error |-> ""]
ClientAtRest ==
    /\ opc = NoOp
    /\ sent = <<>>
    /\ snd = NoSend
    /\ mailCalls = <<>>

SinkAtRest == flushLog = <<>>

\* No config function applied.
NoConf == [section |-> FALSE]
ConfigAtRest ==
    /\ conf = NoConf
    /\ confOut = <<>>

\* runBenchmark not called, `openclaw start` not run.
NoBench == [pc |-> "idle"]
NoService == [pc |-> "idle"]
ToolsAtRest ==
    /\ bench = NoBench
    /\ svc = NoService

\* No monitor running.
MonitorAtRest ==
    /\ cfg = [credsOk |-> FALSE, mailbox |-> "none", draftOnly |-> "unset"]
    /\ mail = [i \in MsgIds |-> "absent"]
    /\ aborted = FALSE
    /\ pc = "start"
    /\ timer = "none"
    /\ listeners = 0
    /\ cycle = 0
    /\ messages = <<>>
    /\ idx = 1
    /\ replyBuffer = <<>>
    /\ delivered = [i \in MsgIds |-> <<>>]
    /\ outbox = <<>>
    /\ dispatched = [i \in MsgIds |-> 0]
    /\ thrown = {}
    /\ idle = "clear"
    /\ pollErr = "none"
    /\ abortedInSleep = FALSE

Init ==
    /\ cfg \in [credsOk : BOOLEAN,
                mailbox : {"none", "blank", "set"},
                draftOnly : {"unset", "true", "false"}]
    /\ mail = [i \in MsgIds |-> "absent"]
    /\ aborted = FALSE
    /\ pc = "start"
    /\ timer = "none"
    /\ listeners = 0
    /\ cycle = 0
    /\ messages = <<>>
    /\ idx = 1
    /\ replyBuffer = <<>>
    /\ delivered = [i \in MsgIds |-> <<>>]
    /\ outbox = <<>>
    /\ dispatched = [i \in MsgIds |-> 0]
    /\ thrown = {}
    /\ idle = "clear"
    /\ pollErr = "none"
    /\ abortedInSleep = FALSE
    /\ ListAtRest
    /\ KeyAtRest
    /\ TokenAtRest
    /\ ClientAtRest
    /\ SinkAtRest
    /\ ConfigAtRest
    /\ ToolsAtRest

\* --------------------------------------------- synchronous continuations
\* sleep(pollMs, abortSignal) up to the await, and the catch { break } around
\* it: an already aborted signal rejects at once and the monitor returns.
SleepCall ==
    IF aborted
    THEN /\ pc' = "stopped"
         /\ UNCHANGED <<timer, listeners>>
    ELSE /\ pc' = "sleeping"
         /\ timer' = "pending"
         /\ listeners' = listeners + 1

\* Variant of CatchCycle without the try/catch: the error ends the monitor.
CatchCycleRethrow(cause) ==
    /\ pollErr' = cause
    /\ pc' = "stopped"
    /\ UNCHANGED <<timer, listeners>>
\* Variant of CatchCycle that goes straight back to the top of the loop.
CatchCycleRetryNow(cause) ==
    /\ pollErr' = cause
    /\ pc' = "listing"
    /\ UNCHANGED <<timer, listeners>>
\* catch (err) { if (aborted) break; log.error("poll cycle error") }, then
\* the sleep.
CatchCycle(cause) ==
    /\ pollErr' = IF aborted THEN pollErr ELSE cause
    /\ SleepCall

\* Variant of StartMessage whose loop does not test the signal.
StartMessageIgnoringAbort(msgs, i, st) ==
    /\ idx' = i
    /\ IF i > Len(msgs)
       THEN SleepCall
       ELSE /\ pc' = "markRead"
            /\ UNCHANGED <<timer, listeners>>
    /\ idle' = IF i > Len(msgs) THEN st ELSE "entered"
\* Variant of StartMessage whose loop steps over the message at position i.
StartMessageSkipping(msgs, i, st) ==
    /\ idx' = IF i < Len(msgs) THEN i + 1 ELSE i
    /\ IF i > Len(msgs) \/ aborted
       THEN SleepCall
       ELSE /\ pc' = "markRead"
            /\ UNCHANGED <<timer, listeners>>
    /\ idle' = IF i > Len(msgs) \/ aborted THEN st ELSE "entered"
\* The for loop at position i: leave the loop at its end or on abort, else
\* enter processMessage and run it up to `await markAsRead`.  `st` is the
\* state of the dispatch-idle notification on arrival here.
StartMessage(msgs, i, st) ==
    /\ idx' = i
    /\ IF i > Len(msgs) \/ aborted
       THEN SleepCall
       ELSE /\ pc' = "markRead"
            /\ UNCHANGED <<timer, listeners>>
    /\ idle' = IF i > Len(msgs) \/ aborted THEN st ELSE "entered"

\* Variant of EnterLoop whose while loop does not test the signal.
EnterLoopUnconditional ==
    /\ pc' = "listing"
    /\ cycle' = cycle + 1
    /\ pollErr' = "none"
    /\ messages' = <<>>
    /\ idx' = 1
\* while (!abortSignal.aborted) { try { ... await listUnreadMessages(...)
\* `messages` and the loop position of the cycle before are out of scope.
EnterLoop ==
    IF aborted
    THEN /\ pc' = "stopped"
         /\ UNCHANGED <<cycle, pollErr, messages, idx>>
    ELSE /\ pc' = "listing"
         /\ cycle' = cycle + 1
         /\ pollErr' = "none"
         /\ messages' = <<>>
         /\ idx' = 1

\* --------------------------------------------------------------- actions
\* monitorOutlookEmail from its call to the first await.
MonitorStart ==
    /\ UNCHANGED otherVars
    /\ pc = "start"
    /\ IF PreconditionOk(cfg)
       THEN EnterLoop
       ELSE /\ pc' = "stopped"
            /\ UNCHANGED <<cycle, pollErr, messages, idx>>
    /\ UNCHANGED <<cfg, mail, aborted, timer, listeners, replyBuffer,
                   delivered, outbox, dispatched, thrown, idle,
                   abortedInSleep>>

\* listUnreadMessages settles.
ListDone(outcome) ==
    /\ UNCHANGED otherVars
    /\ pc = "listing"
    /\ IF outcome = "ok"
       THEN /\ messages' = ListUnreadResponse(mail, DefaultTop)
            /\ StartMessage(messages', 1, idle)
            /\ UNCHANGED pollErr
       ELSE /\ messages' = <<>>
            /\ idx' = 1
            /\ CatchCycle("list")
            /\ UNCHANGED idle
    /\ UNCHANGED <<cfg, mail, aborted, cycle, replyBuffer, delivered, outbox,
                   dispatched, thrown, abortedInSleep>>

\* markAsRead settles; on success processMessage builds the context, creates
\* the dispatcher and calls dispatchReplyFromConfig.  finalizeInboundContext
\* belongs to the host runtime and may throw (ctxOk = FALSE).
MarkReadDone(outcome, ctxOk) ==
    /\ UNCHANGED otherVars
    /\ pc = "markRead"
    /\ LET m == messages[idx] IN
       /\ mail' = IF outcome = "ok" THEN MarkReadEffect(mail, m) ELSE mail
       /\ IF ProceedAfterMarkRead(outcome)
          THEN IF ctxOk
               THEN /\ pc' = "dispatching"
                    /\ replyBuffer' = <<>>
                    /\ dispatched' = [dispatched EXCEPT ![m] = @ + 1]
                    /\ idle' = "owed"
                    /\ UNCHANGED <<timer, listeners, pollErr>>
               ELSE /\ CatchCycle("ctx")
                    /\ idle' = "unsent"
                    /\ UNCHANGED <<replyBuffer, dispatched>>
          ELSE /\ CatchCycle("markRead")
               /\ idle' = "unsent"
               /\ UNCHANGED <<replyBuffer, dispatched>>
    /\ UNCHANGED <<cfg, aborted, cycle, messages, idx, delivered, outbox,
                   thrown, abortedInSleep>>

\* The host runtime hands one chunk to deliver (one call at a time, within
\* the dispatch).  A flush awaits the provider call; whether that succeeded
\* is logged and otherwise left to the dispatcher that called deliver, which
\* may go on, return or throw in either case.
Deliver(text, kind) ==
    /\ UNCHANGED otherVars
    /\ pc = "dispatching"
    /\ ChunksDelivered < MaxChunks
    /\ LET m == messages[idx]
           buf == PushText(replyBuffer, text)
       IN
       /\ delivered' = [delivered EXCEPT
                            ![m] = Append(@, [text |-> text, kind |-> kind])]
       /\ IF ShouldFlush(kind, buf)
          THEN /\ replyBuffer' = <<>>
               /\ outbox' = Append(outbox,
                      [op |-> FlushOp(DraftOnlyOf(cfg)), id |-> m,
                       body |-> JoinBlank(buf), n |-> Len(delivered'[m])])
          ELSE /\ replyBuffer' = buf
               /\ UNCHANGED outbox
    /\ UNCHANGED <<cfg, mail, aborted, pc, timer, listeners, cycle, messages,
                   idx, dispatched, thrown, idle, pollErr, abortedInSleep>>

\* dispatchReplyFromConfig returns: finally markDispatchIdle(), next message.
DispatchReturn ==
    /\ UNCHANGED otherVars
    /\ pc = "dispatching"
    /\ StartMessage(messages, idx + 1, "clear")
    /\ UNCHANGED <<cfg, mail, aborted, cycle, messages, replyBuffer, delivered,
                   outbox, dispatched, thrown, pollErr, abortedInSleep>>

\* Variant of OnDispatchError with the catch clause but no finally clause.
OnDispatchErrorNoFinally ==
    /\ StartMessage(messages, idx + 1, "owed")
    /\ UNCHANGED pollErr
\* Variant of OnDispatchError with the finally clause but no catch clause.
OnDispatchErrorUncaught ==
    /\ idx' = idx
    /\ idle' = "clear"
    /\ CatchCycle("dispatch")
\* catch (err) { log.error("dispatch failed") } finally { markDispatchIdle() },
\* then the for loop goes on.
OnDispatchError ==
    /\ StartMessage(messages, idx + 1, "clear")
    /\ UNCHANGED pollErr

\* dispatchReplyFromConfig throws.
DispatchThrow ==
    /\ UNCHANGED otherVars
    /\ pc = "dispatching"
    /\ thrown' = thrown \cup {messages[idx]}
    /\ OnDispatchError
    /\ UNCHANGED <<cfg, mail, aborted, cycle, messages, replyBuffer, delivered,
                   outbox, dispatched, abortedInSleep>>

\* The sleep's timer fires: the promise resolves and the loop tests the signal.
TimerFire ==
    /\ UNCHANGED otherVars
    /\ pc = "sleeping"
    /\ timer = "pending"
    /\ cycle < MaxCycles
    /\ timer' = "fired"
    /\ EnterLoop
    /\ UNCHANGED <<cfg, mail, aborted, listeners, replyBuffer, delivered,
                   outbox, dispatched, thrown, idle, abortedInSleep>>

\* The owner of the AbortController aborts: the signal's once-listeners run.
Abort ==
    /\ UNCHANGED otherVars
    /\ ~aborted
    /\ aborted' = TRUE
    /\ timer' = IF listeners > 0 THEN AbortListener(timer) ELSE timer
    /\ listeners' = 0
    /\ abortedInSleep' = (pc = "sleeping")
    /\ UNCHANGED <<cfg, mail, pc, cycle, messages, idx, replyBuffer, delivered,
                   outbox, dispatched, thrown, idle, pollErr>>

\* The rejected sleep resumes the monitor: catch { break }, "monitor stopped".
WakeAborted ==
    /\ UNCHANGED otherVars
    /\ pc = "sleeping"
    /\ timer = "cleared"
    /\ pc' = "stopped"
    /\ UNCHANGED <<cfg, mail, aborted, timer, listeners, cycle, messages, idx,
                   replyBuffer, delivered, outbox, dispatched, thrown, idle,
                   pollErr, abortedInSleep>>

\* A new message is received by the mailbox (ids follow receive time).
Arrive ==
    /\ UNCHANGED otherVars
    /\ \E m \in MsgIds :
          /\ mail[m] = "absent"
          /\ \A k \in MsgIds : k < m => mail[k] # "absent"
          /\ mail' = [mail EXCEPT ![m] = "unread"]
    /\ UNCHANGED <<cfg, aborted, pc, timer, listeners, cycle, messages, idx,
                   replyBuffer, delivered, outbox, dispatched, thrown, idle,
                   pollErr, abortedInSleep>>

Next ==
    \/ MonitorStart
    \/ \E o \in Outcomes : ListDone(o)
    \/ \E o \in Outcomes, c \in BOOLEAN : MarkReadDone(o, c)
    \/ \E t \in Texts(ChunksDelivered + 1), k \in Kinds : Deliver(t, k)
    \/ DispatchReturn
    \/ DispatchThrow
    \/ TimerFire
    \/ Abort
    \/ WakeAborted
    \/ Arrive

Spec == Init /\ [][Next]_vars

\* The monitor with its awaits settling: every pending listUnreadMessages,
\* markAsRead and dispatch call eventually returns or throws, and a rejected
\* sleep resumes the task.  Nothing is assumed of the timer or of the owner
\* of the signal.
FairSpec ==
    /\ Spec
    /\ WF_vars(MonitorStart)
    /\ WF_vars(\E o \in Outcomes : ListDone(o))
    /\ WF_vars(\E o \in Outcomes, c \in BOOLEAN : MarkReadDone(o, c))
    /\ WF_vars(DispatchReturn \/ DispatchThrow)
    /\ WF_vars(WakeAborted)

\* ------------------------------------- listUnreadMessages, stub transport
ListInit ==
    /\ MonitorAtRest
    /\ KeyAtRest
    /\ TokenAtRest
    /\ ClientAtRest
    /\ SinkAtRest
    /\ ConfigAtRest
    /\ ToolsAtRest
    /\ lsStore \in SeqsUpTo(1..MaxTime, MaxStore)
    /\ lsHonours \in BOOLEAN
    /\ lsPc = "idle"
    /\ lsReq = NoRequest
    /\ lsResp = <<>>
    /\ lsOut = NotReturned

\* listUnreadMessages up to `await graphFetch(...)`.
ListUnreadCall(topArg) ==
    /\ lsPc = "idle"
    /\ lsPc' = "awaiting"
    /\ lsReq' = ListUnreadRequest(topArg)
    /\ UNCHANGED <<lsStore, lsHonours, lsResp, lsOut, besideList>>

\* The response arrives: throw unless res.ok, else return data.value.
ListUnreadSettle(outcome) ==
    /\ lsPc = "awaiting"
    /\ lsPc' = "done"
    /\ IF outcome = "ok"
       THEN /\ lsResp' = TransportResponse(lsStore, lsReq, lsHonours)
            /\ lsOut' = [status |-> "returned", value |-> ListUnreadValue(lsResp')]
       ELSE /\ lsResp' = <<>>
            /\ lsOut' = [status |-> "threw", value |-> <<>>]
    /\ UNCHANGED <<lsStore, lsHonours, lsReq, besideList>>

ListNext ==
    \/ \E a \in {<<>>, <<1>>, <<2>>} : ListUnreadCall(a)
    \/ \E o \in Outcomes : ListUnreadSettle(o)

ListSpec == ListInit /\ [][ListNext]_vars

\* ------------------------------------------------ session key per sender
Senders ==
    {NoSender} \cup {[has |-> TRUE, addr |-> a] : a \in SeqsUpTo(AddrChars, MaxAddr)}

KeyInit ==
    /\ MonitorAtRest
    /\ ListAtRest
    /\ TokenAtRest
    /\ ClientAtRest
    /\ SinkAtRest
    /\ ConfigAtRest
    /\ ToolsAtRest
    /\ senders \in Senders \X Senders
    /\ keys = <<>>
    /\ boots = 0

\* processMessage derives the session key of the next message.
ComputeKey ==
    /\ Len(keys) < Len(senders)
    /\ keys' = Append(keys, [key |-> SessionKeyOf(senders[Len(keys) + 1]),
                             boot |-> boots])
    /\ UNCHANGED <<senders, boots, besideKey>>

\* The process restarts: nothing of the key derivation is stored.
Restart ==
    /\ boots < MaxBoots
    /\ boots' = boots + 1
    /\ UNCHANGED <<senders, keys, besideKey>>

KeyNext == ComputeKey \/ Restart

KeySpec == KeyInit /\ [][KeyNext]_vars

\* ---------------------------------------------------- getGraphAccessToken
TokenInit ==
    /\ MonitorAtRest
    /\ ListAtRest
    /\ KeyAtRest
    /\ ClientAtRest
    /\ SinkAtRest
    /\ ConfigAtRest
    /\ ToolsAtRest
    /\ credsOf \in [Callers -> CredSets]
    /\ clock = 0
    /\ tokenCache = NullCache
    /\ call = [c \in Callers |-> NoCall]
    /\ requests = <<>>

\* The token requests that have been sent and not answered.
InFlight == {i \in 1..Len(requests) : requests[i].status = "inflight"}

\* getGraphAccessToken(creds) from its call to the return of the cached
\* token or to `await fetch(url, ...)`.
GetTokenCall(c) ==
    /\ call[c].pc # "fetching"
    /\ LET now == clock IN
       IF CacheValid(tokenCache, now)
       THEN /\ call' = [call EXCEPT ![c] =
                          [pc |-> "returned", now |-> now, req |-> 0,
                           token |-> tokenCache.token]]
            /\ UNCHANGED requests
       ELSE /\ Len(requests) < MaxRequests
            /\ requests' = Append(requests,
                   [creds |-> credsOf[c], at |-> now, status |-> "inflight",
                    expiresIn |-> 0, during |-> InFlight])
            /\ call' = [call EXCEPT ![c] =
                          [pc |-> "fetching", now |-> now,
                           req |-> Len(requests'), token |-> 0]]
    /\ UNCHANGED <<credsOf, clock, tokenCache, besideToken>>

\* The token request of c settles.  The token endpoint issues the token
\* numbered like the request, for the credentials of the request.  A
\* rejected fetch and a response that is not ok both throw.
TokenResponse(c, outcome, expiresIn) ==
    /\ call[c].pc = "fetching"
    /\ LET r == call[c].req IN
       IF outcome = "ok"
       THEN /\ tokenCache' = CacheWrite(tokenCache, r, call[c].now, expiresIn)
            /\ call' = [call EXCEPT ![c].pc = "returned", ![c].token = r]
            /\ requests' = [requests EXCEPT ![r].status = "ok",
                                             ![r].expiresIn = expiresIn]
       ELSE /\ call' = [call EXCEPT ![c].pc = "threw"]
            /\ requests' = [requests EXCEPT ![r].status = outcome]
            /\ tokenCache' = CacheAfterFailure(tokenCache)
    /\ UNCHANGED <<credsOf, clock, besideToken>>

\* Time passes to the next instant at which the clock is read.
Tick ==
    /\ \E i \in 1..(Len(Instants) - 1) :
          /\ clock = Instants[i]
          /\ clock' = Instants[i + 1]
    /\ UNCHANGED <<credsOf, tokenCache, call, requests, besideToken>>

TokenNext ==
    \/ \E c \in Callers : GetTokenCall(c)
    \/ \E c \in Callers, o \in TokenOutcomes, e \in ExpiresIn :
          TokenResponse(c, o, e)
    \/ Tick

TokenSpec == TokenInit /\ [][TokenNext]_vars

\* --------------------------------- operations of graph.ts, and sendText
besideClient == <<mail, aborted, pc, timer, listeners, cycle, messages, idx,
                  replyBuffer, delivered, outbox, dispatched, thrown, idle,
                  pollErr, abortedInSleep, lsVars, keyVars, credsOf, call,
                  sinkVars, confVars, toolVars>>

ClientInit ==
    /\ cfg \in [credsOk : BOOLEAN,
                mailbox : {"none", "blank", "set"},
                draftOnly : {"unset", "true", "false"}]
    /\ mail = [i \in MsgIds |-> "absent"]
    /\ aborted = FALSE
    /\ pc = "start"
    /\ timer = "none"
    /\ listeners = 0
    /\ cycle = 0
    /\ messages = <<>>
    /\ idx = 1
    /\ replyBuffer = <<>>
    /\ delivered = [i \in MsgIds |-> <<>>]
    /\ outbox = <<>>
    /\ dispatched = [i \in MsgIds |-> 0]
    /\ thrown = {}
    /\ idle = "clear"
    /\ pollErr = "none"
    /\ abortedInSleep = FALSE
    /\ ListAtRest
    /\ KeyAtRest
    /\ TokenAtRest
    /\ ClientAtRest
    /\ SinkAtRest
    /\ ConfigAtRest
    /\ ToolsAtRest

\* The fetch of graphFetch: the provider request goes out with the bearer.
ProviderRequest(op, by, bearer, n) ==
    [op |-> op, bearer |-> bearer, n |-> n,
     subject |-> IF by = "sendText" THEN SendTextSubject ELSE ""]

\* An operation of graph.ts from its call to the first await that suspends
\* it: graphFetch awaits getGraphAccessToken, which returns the cached token
\* or sends a token request.
GraphFetchStart(op, by) ==
    /\ mailCalls' = Append(mailCalls, [op |-> op, by |-> by])
    /\ IF CacheValid(tokenCache, clock)
       THEN /\ sent' = Append(sent, ProviderRequest(op, by, tokenCache.token,
                                                Len(mailCalls) + 1))
            /\ opc' = [NoOp EXCEPT !.op = op, !.pc = "provider", !.now = clock]
            /\ UNCHANGED requests
       ELSE /\ Len(requests) < MaxRequests
            /\ requests' = Append(requests,
                   [creds |-> "A", at |-> clock, status |-> "inflight",
                    expiresIn |-> 0, during |-> InFlight])
            /\ opc' = [NoOp EXCEPT !.op = op, !.pc = "token", !.now = clock,
                                   !.req = Len(requests')]
            /\ UNCHANGED sent
    /\ UNCHANGED <<clock, tokenCache>>

\* Variant of EndOfOperation in which sendText swallows the error.
EndOfOperationSwallowing(result) ==
    snd' = IF snd.pc # "calling" THEN snd ELSE [pc |-> "returned", error |-> ""]
\* The operation ends: sendText, when it awaits this operation, returns
\* { channel, messageId: "sent" } or passes the error on.
EndOfOperation(result) ==
    snd' = IF snd.pc # "calling" THEN snd
           ELSE IF result.kind = "returned"
                THEN [pc |-> "returned", error |-> ""]
                ELSE [pc |-> "threw", error |-> result.error]

\* A holder of resolved credentials (the monitor, its reply sink, the status
\* probe) calls listUnreadMessages, markAsRead, replyToMessage or
\* createDraftReply; the sink calls the one that draftOnly selects.
DirectCall(op) ==
    /\ op # "sendMail"
    /\ op \in {"reply", "createReply"} => op = FlushOp(DraftOnlyOf(cfg))
    /\ PreconditionOk(cfg)
    /\ opc.pc \in {"idle", "done"}
    /\ snd.pc # "calling"
    /\ Len(mailCalls) < MaxOps
    /\ GraphFetchStart(op, "direct")
    /\ UNCHANGED <<cfg, snd, besideClient>>

\* outlookOutbound.sendText
SendText ==
    /\ opc.pc \in {"idle", "done"}
    /\ snd.pc # "calling"
    /\ Len(mailCalls) < MaxOps
    /\ IF ~cfg.credsOk
       THEN /\ snd' = [pc |-> "threw", error |-> "outlook credentials not configured"]
            /\ UNCHANGED <<opc, sent, mailCalls, clock, tokenCache, requests>>
       ELSE IF cfg.mailbox # "set"
       THEN /\ snd' = [pc |-> "threw", error |-> "outlook mailbox not configured"]
            /\ UNCHANGED <<opc, sent, mailCalls, clock, tokenCache, requests>>
       ELSE /\ snd' = [pc |-> "calling", error |-> ""]
            /\ GraphFetchStart("sendMail", "sendText")
    /\ UNCHANGED <<cfg, besideClient>>

\* The token request of the operation settles: on success the token is
\* cached and the provider request goes out; on failure getGraphAccessToken
\* throws and graphFetch and the operation pass the error on.
ClientTokenResponse(outcome, expiresIn) ==
    /\ opc.pc = "token"
    /\ LET r == opc.req
           by == mailCalls[Len(mailCalls)].by
       IN
       /\ requests' = [requests EXCEPT
                          ![r].status = outcome,
                          ![r].expiresIn = IF outcome = "ok" THEN expiresIn ELSE 0]
       /\ tokenCache' = IF outcome = "ok"
                        THEN CacheWrite(tokenCache, r, opc.now, expiresIn)
                        ELSE CacheAfterFailure(tokenCache)
       /\ IF SendsAfterToken(outcome)
          THEN /\ sent' = Append(sent,
                      ProviderRequest(opc.op, by, IF outcome = "ok" THEN r ELSE 0,
                                      Len(mailCalls)))
               /\ opc' = [opc EXCEPT !.pc = "provider"]
               /\ UNCHANGED snd
          ELSE /\ opc' = [opc EXCEPT
                             !.pc = "done",
                             !.result = [kind |-> "threw", value |-> "",
                                         error |-> IF outcome = "network"
                                                   THEN "fetch failed"
                                                   ELSE "outlook token request failed"]]
               /\ EndOfOperation(opc'.result)
               /\ UNCHANGED sent
    /\ UNCHANGED <<cfg, clock, mailCalls, besideClient>>

\* The provider request settles: the fetch is rejected, or a response with
\* a status and a text arrives.
ClientProviderResponse(arrived, status, text) ==
    /\ opc.pc = "provider"
    /\ opc' = [opc EXCEPT
                  !.pc = "done",
                  !.status = IF arrived THEN status ELSE 0,
                  !.text = IF arrived THEN text ELSE "",
                  !.result =
                     IF ~arrived
                     THEN [kind |-> "threw", value |-> "", error |-> "fetch failed"]
                     ELSE IF ResOk(status)
                     THEN [kind |-> "returned", value |-> ValueOf(opc.op, text),
                           error |-> ""]
                     ELSE [kind |-> "threw", value |-> "",
                           error |-> ErrorOf(opc.op, status, text)]]
    /\ EndOfOperation(opc'.result)
    /\ UNCHANGED <<cfg, clock, tokenCache, requests, sent, mailCalls, besideClient>>

\* Time passes to the next instant at which the clock is read.
ClientTick ==
    /\ \E i \in 1..(Len(Instants) - 1) :
          /\ clock = Instants[i]
          /\ clock' = Instants[i + 1]
    /\ UNCHANGED <<cfg, tokenCache, requests, cliVars, besideClient>>

ClientNext ==
    \/ \E op \in Ops : DirectCall(op)
    \/ SendText
    \/ \E o \in TokenOutcomes, e \in ExpiresIn : ClientTokenResponse(o, e)
    \/ \E a \in BOOLEAN, st \in Statuses, t \in Bodies :
          ClientProviderResponse(a, st, t)
    \/ ClientTick

ClientSpec == ClientInit /\ [][ClientNext]_vars

\* ------------------------------------------------------ history operators
\* A step in which the monitor issues a provider request: it comes to await
\* listUnreadMessages or markAsRead, or deliver calls replyToMessage /
\* createDraftReply.
IssuesCall ==
    \/ pc' \in {"listing", "markRead"} /\ pc' # pc
    \/ Len(outbox') > Len(outbox)

\* The replyToMessage / createDraftReply calls issued for message m.
Calls(m) == {i \in 1..Len(outbox) : outbox[i].id = m}

\* The chunks tagged final handed to m's reply sink.
Finals(m) == {i \in 1..Len(delivered[m]) : delivered[m][i].kind = "final"}

\* The texts of the chunks in `chunks` that carry one, in arrival order.
RECURSIVE TextsOf(_)
TextsOf(chunks) ==
    IF Len(chunks) = 0 THEN <<>>
    ELSE IF chunks[1].text = "" THEN TextsOf(Tail(chunks))
    ELSE <<chunks[1].text>> \o TextsOf(Tail(chunks))

\* ----------------------------------------------------------------- claims

\* C1: a message is handed to dispatch, and its reply sink receives chunks,
\* only after the markRead call for that message has completed.
C1_MarkReadBeforeDispatch ==
    /\ pc = "dispatching" => mail[messages[idx]] = "read"
    /\ \A m \in MsgIds :
          (dispatched[m] > 0 \/ Len(delivered[m]) > 0) => mail[m] = "read"

C1_Witness ==
    \E m \in MsgIds :
        dispatched[m] = 1 /\ Len(delivered[m]) > 0 /\ mail[m] = "read"

\* C2: across all poll cycles of the monitor every message id is dispatched
\* to the agent at most once, also when its dispatch throws.
C2_AtMostOnce == \A m \in MsgIds : dispatched[m] <= 1

\* Message 1 was dispatched in the first cycle and its dispatch threw; the
\* second cycle lists message 2 alone and is dispatching it.
C2_Witness ==
    /\ cycle = 2
    /\ pc = "dispatching"
    /\ messages = <<2>>
    /\ 1 \in thrown
    /\ dispatched[1] = 1

\* C3: with draftOnly unset or true every flush is one createDraftReply call
\* and reply is never called; with draftOnly = false every flush is one reply
\* call and createDraftReply is never called.
C3_DraftBranch ==
    /\ \A i \in 1..Len(outbox) :
          outbox[i].op = IF cfg.draftOnly = "false" THEN "reply" ELSE "createReply"
    /\ \A m \in MsgIds : Cardinality(Calls(m)) <= Cardinality(Finals(m))

C3_Witness ==
    /\ cfg.draftOnly = "unset"
    /\ Len(outbox) > 0
    /\ outbox[1].op = "createReply"

\* C4: for one inbound message at most one reply or draft is created; after
\* the first flush no later chunk causes another provider call.
C4_SingleFlush == \A m \in MsgIds : Cardinality(Calls(m)) <= 1

\* C5: no reply / createDraftReply call is issued for a message before a chunk
\* tagged final reached its sink; every call is issued on the delivery of a
\* final chunk, and a dispatch without a final chunk produces no call.
C5_NoCallBeforeFinal ==
    /\ \A m \in MsgIds : Cardinality(Calls(m)) <= Cardinality(Finals(m))
    /\ \A i \in 1..Len(outbox) :
          /\ outbox[i].n \in 1..Len(delivered[outbox[i].id])
          /\ delivered[outbox[i].id][outbox[i].n].kind = "final"

\* An interim chunk with text was only buffered, and the final chunk after it
\* caused the one call.
C5_Witness ==
    \E m \in MsgIds :
        /\ Len(delivered[m]) = 2
        /\ delivered[m][1].kind = "block" /\ delivered[m][1].text # ""
        /\ delivered[m][2].kind = "final"
        /\ Cardinality(Calls(m)) = 1

\* C6: the body of every reply / draft flushed for m is the texts of all the
\* chunks handed to m's sink since processing of m began, in arrival order,
\* joined by a blank line, and the call is addressed to m.
C6_BodyIsAllChunks ==
    \A i \in 1..Len(outbox) :
        LET r == outbox[i] IN
        /\ r.id \in MsgIds
        /\ r.body = JoinBlank(TextsOf(SubSeq(delivered[r.id], 1, r.n)))

\* C7: a throwing dispatch of message A is caught inside processMessage: the
\* poll loop sees no error, moves past A, and (unless cancelled) enters the
\* processing of the next message B of the same listing.
C7_DispatchErrorContained ==
    /\ pollErr # "dispatch"
    /\ \A i \in 1..Len(messages) :
          messages[i] \in thrown =>
             /\ idx > i
             /\ (i < Len(messages) /\ ~aborted) =>
                   \/ idx > i + 1
                   \/ pc \in {"markRead", "dispatching"}
                   \/ pollErr \in {"markRead", "ctx"}

\* A's dispatch threw and B was dispatched in the same cycle.
C7_Witness ==
    /\ messages = <<1, 2>>
    /\ 1 \in thrown
    /\ dispatched[2] = 1

\* C8 as stated: an error at any step of processing one message does not
\* abort the cycle: when a cycle that was not cancelled has ended, no message
\* of its listing after the last one processed is left.
C8_NoErrorAbortsCycle ==
    (pc = "sleeping" /\ ~aborted) => idx >= Len(messages)

\* C8 as amended: an error raised while a message is processed is caught and
\* logged and never stops the monitor.  A cycle that was not cancelled leaves
\* its for loop early only through an error raised before the dispatch (a
\* failing markRead, a failing context build), which the poll loop catches
\* and logs; the messages after the failing one are then not touched in that
\* cycle and stay unread.
C8_ErrorEndsCycleOnly ==
    /\ pc = "stopped" => (aborted \/ ~PreconditionOk(cfg))
    /\ (pc = "sleeping" /\ ~aborted /\ idx <= Len(messages)) =>
          /\ pollErr \in {"markRead", "ctx"}
          /\ \A j \in (idx + 1)..Len(messages) :
                 mail[messages[j]] = "unread" /\ dispatched[messages[j]] = 0

\* markRead failed for the first of two listed messages: the cycle ended
\* with the second one left.
C8_Witness ==
    /\ pc = "sleeping"
    /\ ~aborted
    /\ messages = <<1, 2>>
    /\ idx = 1
    /\ pollErr = "markRead"

\* C9 as stated: every invocation of processMessage has sent the
\* dispatch-idle notification when it exits, on every exit path.
C9_IdleOnEveryExit ==
    pc \notin {"markRead", "dispatching"} => idle = "clear"

\* C9 as amended: every invocation of processMessage that started the
\* dispatch has sent the dispatch-idle notification when it exits, whether
\* the dispatch returned or threw, and not before the dispatch ended.
C9_IdleAfterDispatch ==
    idle = "owed" <=> pc = "dispatching"

\* The dispatch of the cycle's last message threw and the notification was
\* sent before the monitor went to sleep.
C9_Witness ==
    /\ pc = "sleeping"
    /\ Len(messages) > 0
    /\ idx = Len(messages) + 1
    /\ messages[Len(messages)] \in thrown
    /\ idle = "clear"

\* C10: when the signal is raised during the inter-cycle sleep, the timer is
\* cleared at once, the monitor's only step left is the one to Stopped, and
\* no provider request is issued afterwards.
C10_AbortInterruptsSleep ==
    /\ [](abortedInSleep =>
            /\ timer = "cleared"
            /\ pc \in {"sleeping", "stopped"}
            /\ pc = "sleeping" => ENABLED WakeAborted)
    /\ [][abortedInSleep => ~IssuesCall]_vars

C10_Witness == abortedInSleep /\ pc = "stopped" /\ cycle = 1

\* C11: once the signal is raised no poll cycle starts (the monitor never
\* comes to await listUnreadMessages again), whatever it was doing; and once
\* the monitor is stopped it stays stopped, starts no sleep and issues no
\* provider request.
C11_NoCycleAfterAbort ==
    /\ [][(aborted \/ aborted') =>
             (cycle' = cycle /\ (pc' = "listing" => pc = "listing"))]_vars
    /\ [][pc = "stopped" =>
             /\ pc' = "stopped"
             /\ cycle' = cycle
             /\ timer' \in {timer, AbortListener(timer)}
             /\ timer' # "pending"
             /\ messages' = messages /\ idx' = idx
             /\ ~IssuesCall]_vars

\* The signal was raised while the first of two listed messages was being
\* processed: the monitor stopped with the second one not processed.
C11_Witness ==
    /\ pc = "stopped"
    /\ aborted
    /\ ~abortedInSleep
    /\ cycle = 1
    /\ messages = <<1, 2>>
    /\ idx = 2
    /\ dispatched[1] = 1
    /\ mail[2] = "unread"

\* C12: when the credentials cannot be resolved or the mailbox is missing or
\* blank, the monitor goes from its start straight to Stopped: no cycle is
\* started, no sleep, and no provider request is ever issued.
C12_NoPollWithoutConfig ==
    /\ []((~cfg.credsOk \/ cfg.mailbox \in {"none", "blank"}) =>
             /\ pc \in {"start", "stopped"}
             /\ cycle = 0
             /\ timer = "none"
             /\ outbox = <<>>
             /\ \A m \in MsgIds : mail[m] # "read" /\ dispatched[m] = 0)
    /\ [][(~cfg.credsOk \/ cfg.mailbox \in {"none", "blank"}) =>
             (~IssuesCall /\ pc' \in {pc, "stopped"})]_vars

\* Credentials resolve, the mailbox is blank, and the monitor has stopped
\* with an unread message waiting in the mailbox.
C12_Witness ==
    /\ cfg.credsOk
    /\ cfg.mailbox = "blank"
    /\ pc = "stopped"
    /\ ~aborted
    /\ mail[1] = "unread"

\* C13: the messages of a listing are processed one at a time in the order
\* listed: while the message at position idx is being marked read or
\* dispatched, every earlier one has been marked read and dispatched, no later
\* one has been touched, and every step that marks read, dispatches, hands a
\* chunk to a sink or flushes concerns that message alone.
C13_Sequential ==
    /\ [](pc \in {"markRead", "dispatching"} =>
             /\ idx \in 1..Len(messages)
             /\ pc = "markRead" => dispatched[messages[idx]] = 0
             /\ \A j \in 1..(idx - 1) :
                    /\ mail[messages[j]] = "read"
                    /\ dispatched[messages[j]] = 1
             /\ \A j \in (idx + 1)..Len(messages) :
                    /\ mail[messages[j]] = "unread"
                    /\ dispatched[messages[j]] = 0
                    /\ delivered[messages[j]] = <<>>
                    /\ Calls(messages[j]) = {})
    /\ [][\A m \in MsgIds :
             /\ (mail[m] # "read" /\ mail'[m] = "read") =>
                    (pc = "markRead" /\ m = messages[idx])
             /\ dispatched'[m] # dispatched[m] =>
                    (pc = "markRead" /\ m = messages[idx])
             /\ delivered'[m] # delivered[m] =>
                    (pc = "dispatching" /\ m = messages[idx])
             /\ (\E i \in (Len(outbox) + 1)..Len(outbox') : outbox'[i].id = m) =>
                    (pc = "dispatching" /\ m = messages[idx])]_vars

\* The second of two listed messages is being dispatched after the first
\* one's dispatch, which produced a reply, has ended.
C13_Witness ==
    /\ pc = "dispatching"
    /\ messages = <<1, 2>>
    /\ idx = 2
    /\ Calls(1) # {}
    /\ Len(delivered[2]) > 0

\* C14 as stated: whatever order the transport delivers the messages in,
\* listUnreadMessages returns them in non-decreasing receive-time order.
C14_AlwaysOrdered ==
    lsOut.status = "returned" => NonDecreasing(lsOut.value)

\* C14 as amended: listUnreadMessages asks for the unread messages in
\* ascending receive-time order with the limit given (20 when omitted) and
\* returns the messages of the response as delivered; the result is in
\* non-decreasing receive-time order whenever the transport applies the
\* ordering asked for.
C14_OrderAsRequested ==
    /\ lsPc # "idle" =>
          /\ lsReq.filter = "isRead eq false"
          /\ lsReq.orderby = "receivedDateTime asc"
          /\ lsReq.top \in {DefaultTop, 1, 2}
    /\ lsOut.status = "returned" =>
          /\ lsOut.value = lsResp
          /\ Len(lsOut.value) <= lsReq.top
          /\ lsHonours => NonDecreasing(lsOut.value)

\* Three messages stored newest first come back oldest first from a
\* transport that applies the ordering, under the default limit.
C14_Witness ==
    /\ lsOut.status = "returned"
    /\ lsHonours
    /\ lsStore = <<3, 2, 1>>
    /\ lsReq.top = DefaultTop
    /\ lsOut.value = <<[id |-> 3, t |-> 1], [id |-> 2, t |-> 2], [id |-> 1, t |-> 3]>>

\* C15: the session key is "outlook:" followed by the lower-cased sender
\* address; two messages that carry sender addresses get the same key exactly
\* when the addresses are equal ignoring case, whichever process incarnation
\* computes each; a message without a sender address gets "outlook:unknown".
C15_KeyPerSender ==
    /\ \A i \in 1..Len(keys) :
          /\ senders[i].has =>
                keys[i].key = "outlook:" \o Concat(ToLowerCase(senders[i].addr))
          /\ ~senders[i].has => keys[i].key = "outlook:unknown"
    /\ \A i, j \in 1..Len(keys) :
          (senders[i].has /\ senders[j].has) =>
             (keys[i].key = keys[j].key <=>
                 EqIgnoreCase(senders[i].addr, senders[j].addr))

\* Two messages whose sender addresses differ in case only got the same key
\* before and after a restart.
C15_Witness ==
    /\ Len(keys) = 2
    /\ senders[1] = [has |-> TRUE, addr |-> <<"A", "b">>]
    /\ senders[2] = [has |-> TRUE, addr |-> <<"a", "B">>]
    /\ keys[1].boot = 0
    /\ keys[2].boot = 1
    /\ keys[1].key = "outlook:ab"
    /\ keys[2].key = "outlook:ab"

\* The (token, expiresAt) pair of the successful response to request r.
PairOf(r) ==
    [set |-> TRUE, token |-> r,
     expiresAt |-> requests[r].at + requests[r].expiresIn * 1000]

\* A step in which caller c calls getGraphAccessToken.
CallsGetToken(c) == call[c].pc # "fetching" /\ call'[c] # call[c]

\* C16: a call of getGraphAccessToken sends a token request exactly when no
\* token is cached or the cached token has 60 s or less left; otherwise it
\* returns the cached token, sends nothing and leaves the cache as it is.
C16_RequestIffStale ==
    [][\A c \in Callers :
          CallsGetToken(c) =>
             LET stale == \/ ~tokenCache.set
                          \/ tokenCache.expiresAt - clock <= 60000
             IN /\ tokenCache' = tokenCache
                /\ stale =>
                      /\ Len(requests') = Len(requests) + 1
                      /\ call'[c].pc = "fetching"
                      /\ call'[c].req = Len(requests')
                /\ ~stale =>
                      /\ requests' = requests
                      /\ call'[c].pc = "returned"
                      /\ call'[c].req = 0
                      /\ call'[c].token = tokenCache.token]_vars

\* A token was cached at 0 with expires_in 3600; the call at 3000 s returned
\* it without a request and the call at 3545 s sent the second request.
C16_Witness ==
    /\ Len(requests) = 2
    /\ requests[1].at = 0 /\ requests[1].status = "ok"
    /\ requests[1].expiresIn = 3600
    /\ call["c1"] = [pc |-> "returned", now |-> 3000000, req |-> 0, token |-> 1]
    /\ call["c2"].now = 3545000
    /\ call["c2"].req = 2

\* C17: getGraphAccessToken never returns to a caller a token that was
\* issued for another credential set than the caller's.
C17_NoSharing ==
    \A c \in Callers :
        call[c].pc = "returned" => requests[call[c].token].creds = credsOf[c]

\* C18: when the token request fails, with a response that is not ok or a
\* network error, the call throws after its one request, sends no further
\* request, and the cache keeps what it held.
C18_FailureLeavesCache ==
    /\ [](\A c \in Callers :
             call[c].pc = "threw" =>
                /\ call[c].req \in 1..Len(requests)
                /\ requests[call[c].req].status \in {"non2xx", "network"})
    /\ [][\A c \in Callers :
             (call[c].pc = "fetching" /\ call'[c].pc # "fetching") =>
                /\ Len(requests') = Len(requests)
                /\ call'[c].req = call[c].req
                /\ call'[c].pc = "threw" <=>
                       requests'[call[c].req].status \in {"non2xx", "network"}
                /\ call'[c].pc = "threw" => tokenCache' = tokenCache]_vars

\* The refresh of a token that has run out failed on the network and the
\* old token is still cached.
C18_Witness ==
    /\ call["c1"].pc = "threw"
    /\ call["c1"].req = 2
    /\ requests[2].status = "network"
    /\ tokenCache = PairOf(1)

\* C19: the cache is empty or holds the token and the expiry of one and the
\* same successful token response, also while refreshes are in flight, after
\* refreshes failed and after interleaved refreshes.
C19_CachePairFromOneResponse ==
    \/ tokenCache = NullCache
    \/ \E r \in 1..Len(requests) :
          requests[r].status = "ok" /\ tokenCache = PairOf(r)

\* Two interleaved refreshes got responses with different expiries and the
\* cache holds the pair of the first request, whose response came last.
C19_Witness ==
    /\ Len(requests) = 2
    /\ requests[1].status = "ok" /\ requests[2].status = "ok"
    /\ 1 \in requests[2].during
    /\ requests[1].at + requests[1].expiresIn * 1000
          # requests[2].at + requests[2].expiresIn * 1000
    /\ tokenCache = PairOf(1)

\* Two calls whose token requests were in flight at the same time.
Overlapping(c, d) ==
    /\ call[c].req # 0 /\ call[d].req # 0
    /\ \/ call[c].req \in requests[call[d].req].during
       \/ call[d].req \in requests[call[c].req].during

\* C20: when two calls for the same credentials both find no usable token,
\* each sends its own request and gets the token of its own response, and
\* when both have returned the cache holds the pair of one of the two
\* responses.
C20_DoubleRefreshHarmless ==
    /\ \A c \in Callers :
          (call[c].pc = "returned" /\ call[c].req # 0) =>
             call[c].token = call[c].req
    /\ \A c, d \in Callers :
          (/\ c # d
           /\ credsOf[c] = credsOf[d]
           /\ Overlapping(c, d)
           /\ call[c].pc = "returned" /\ call[d].pc = "returned") =>
             /\ call[c].req # call[d].req
             /\ tokenCache \in {PairOf(call[c].req), PairOf(call[d].req)}

\* Both calls were made with an empty cache and the same credentials, and
\* both have returned their own token.
C20_Witness ==
    /\ credsOf["c1"] = credsOf["c2"]
    /\ Overlapping("c1", "c2")
    /\ call["c1"].pc = "returned" /\ call["c2"].pc = "returned"
    /\ call["c1"].token # call["c2"].token
    /\ requests[1].expiresIn # requests[2].expiresIn

\* ------------------------------------------------- the reply sink alone
\* processMessage's deliver callback with the provider call it awaits, for
\* the first message of the first cycle.  The dispatcher may call deliver
\* again while the call of an earlier flush is still awaited.

\* processMessage has marked message 1 read and created the dispatcher.
SinkInit ==
    /\ cfg \in [credsOk : {TRUE},
                mailbox : {"set"},
                draftOnly : {"unset", "true", "false"}]
    /\ mail = [i \in MsgIds |-> IF i = 1 THEN "read" ELSE "absent"]
    /\ aborted = FALSE
    /\ pc = "dispatching"
    /\ timer = "none"
    /\ listeners = 0
    /\ cycle = 1
    /\ messages = <<1>>
    /\ idx = 1
    /\ replyBuffer = <<>>
    /\ delivered = [i \in MsgIds |-> <<>>]
    /\ outbox = <<>>
    /\ dispatched = [i \in MsgIds |-> IF i = 1 THEN 1 ELSE 0]
    /\ thrown = {}
    /\ idle = "owed"
    /\ pollErr = "none"
    /\ abortedInSleep = FALSE
    /\ ListAtRest
    /\ KeyAtRest
    /\ TokenAtRest
    /\ ClientAtRest
    /\ SinkAtRest
    /\ ConfigAtRest
    /\ ToolsAtRest

\* Variant of BufferAfterFlush that keeps the buffer until the text is sent.
BufferKeptAfterFlush(buf) == buf
\* replyBuffer.length = 0, before the provider call is made.
BufferAfterFlush(buf) == <<>>

\* deliver(payload, { kind }) up to its await.
SinkDeliver(text, kind) ==
    /\ pc = "dispatching"
    /\ Len(delivered[messages[idx]]) < MaxSinkChunks
    /\ LET m == messages[idx]
           buf == PushText(replyBuffer, text)
       IN
       /\ delivered' = [delivered EXCEPT
                            ![m] = Append(@, [text |-> text, kind |-> kind])]
       /\ IF ShouldFlush(kind, buf)
          THEN /\ replyBuffer' = BufferAfterFlush(buf)
               /\ outbox' = Append(outbox,
                      [op |-> FlushOp(DraftOnlyOf(cfg)), id |-> m,
                       body |-> JoinBlank(buf), n |-> Len(delivered'[m])])
               /\ flushLog' = Append(flushLog, "inflight")
          ELSE /\ replyBuffer' = buf
               /\ UNCHANGED <<outbox, flushLog>>
    /\ UNCHANGED <<cfg, mail, aborted, pc, timer, listeners, cycle, messages,
                   idx, dispatched, thrown, idle, pollErr, abortedInSleep>>
    /\ UNCHANGED <<lsVars, keyVars, tokVars, cliVars, confVars, toolVars>>

\* The createDraftReply or replyToMessage call of flush i settles: deliver
\* logs and returns, or rejects with the error of the call.
SinkSettle(i, outcome) ==
    /\ i \in 1..Len(flushLog)
    /\ flushLog[i] = "inflight"
    /\ flushLog' = [flushLog EXCEPT ![i] = outcome]
    /\ UNCHANGED <<monVars, lsVars, keyVars, tokVars, cliVars, confVars, toolVars>>

SinkNext ==
    \/ \E k \in 1..MaxSinkChunks : \E text \in Texts(k), kind \in Kinds :
            /\ k = Len(delivered[messages[idx]]) + 1
            /\ SinkDeliver(text, kind)
    \/ \E i \in 1..MaxSinkChunks, outcome \in Outcomes : SinkSettle(i, outcome)

SinkSpec == SinkInit /\ [][SinkNext]_vars

\* ------------------------------------------- the plugin's config functions
\* outlookPlugin.config.listAccountIds, resolveAccount and isConfigured,
\* applied to a configuration and an environment.  An optional string is
\* [has, chars]: has = FALSE is undefined.

StrChars == {" ", "x"}
Undefined == [has |-> FALSE, chars |-> <<>>]
Str(chars) == [has |-> TRUE, chars |-> chars]
OptStrings == {Undefined} \cup {Str(q) : q \in SeqsUpTo(StrChars, MaxStr)}
EnvStrings == {Undefined, Str(<<" ">>), Str(<<"e">>)}

\* String.prototype.trim
RECURSIVE TrimStart(_)
TrimStart(chars) ==
    IF Len(chars) = 0 THEN chars
    ELSE IF chars[1] = " " THEN TrimStart(Tail(chars))
    ELSE chars
RECURSIVE TrimEnd(_)
TrimEnd(chars) ==
    IF Len(chars) = 0 THEN chars
    ELSE IF chars[Len(chars)] = " " THEN TrimEnd(SubSeq(chars, 1, Len(chars) - 1))
    ELSE chars
Trim(chars) == TrimEnd(TrimStart(chars))

\* v?.trim()
TrimOpt(v) == IF v.has THEN Str(Trim(v.chars)) ELSE Undefined
\* !!v of an optional string
Truthy(v) == v.has /\ Len(v.chars) > 0
\* Variant of OrElse that prefers its second operand.
OrElseSecond(a, b) == IF Truthy(b) THEN b ELSE a
\* a || b
OrElse(a, b) == IF Truthy(a) THEN a ELSE b
\* oc?.field
OcField(c, f) == IF c.section THEN c[f] ELSE Undefined
\* oc?.enabled
OcEnabled(c) == IF c.section THEN c.enabled ELSE "unset"

NoCreds == [defined |-> FALSE, appId |-> <<>>, appSecret |-> <<>>, tenantId |-> <<>>]
NoAccount == [defined |-> FALSE, appId |-> <<>>, appSecret |-> <<>>,
              tenantId |-> <<>>, mailbox |-> <<>>]

\* resolveOutlookCredentials(oc)
ResolveOutlookCredentials(c) ==
    LET appId == OrElse(TrimOpt(OcField(c, "appId")), TrimOpt(c.env.id))
        appSecret == OrElse(TrimOpt(OcField(c, "appPassword")), TrimOpt(c.env.secret))
        tenantId == OrElse(TrimOpt(OcField(c, "tenantId")), TrimOpt(c.env.tenant))
    IN IF ~Truthy(appId) \/ ~Truthy(appSecret) \/ ~Truthy(tenantId)
       THEN NoCreds
       ELSE [defined |-> TRUE, appId |-> appId.chars,
             appSecret |-> appSecret.chars, tenantId |-> tenantId.chars]

\* Variant of ListAccountIds that wants enabled to be true.
ListAccountIdsWhenTrue(c) ==
    IF OcEnabled(c) = "true" THEN <<"default">> ELSE <<>>
\* config.listAccountIds
ListAccountIds(c) ==
    IF OcEnabled(c) # "false" THEN <<"default">> ELSE <<>>

\* config.resolveAccount: what it returns, or the TypeError of reading
\* .mailbox of an undefined oc.
ResolveAccount(c) ==
    LET creds == ResolveOutlookCredentials(c) IN
    IF OcEnabled(c) = "false"
    THEN [kind |-> "returned", account |-> NoAccount]
    ELSE IF ~creds.defined
    THEN [kind |-> "returned", account |-> NoAccount]
    ELSE IF ~c.section
    THEN [kind |-> "threw", account |-> NoAccount]
    ELSE LET mailbox == TrimOpt(c.mailbox) IN
         IF ~Truthy(mailbox)
         THEN [kind |-> "returned", account |-> NoAccount]
         ELSE [kind |-> "returned",
               account |-> [defined |-> TRUE, appId |-> creds.appId,
                            appSecret |-> creds.appSecret,
                            tenantId |-> creds.tenantId,
                            mailbox |-> mailbox.chars]]

\* Variant of IsConfigured that does not trim the mailbox.
IsConfiguredNoTrim(c) ==
    /\ c.section
    /\ ResolveOutlookCredentials(c).defined
    /\ Truthy(c.mailbox)
\* config.isConfigured
IsConfigured(c) ==
    /\ c.section
    /\ ResolveOutlookCredentials(c).defined
    /\ Truthy(TrimOpt(c.mailbox))

\* What monitorOutlookEmail makes of the configuration: resolved
\* credentials and oc?.mailbox?.trim().
MonitorConfigOf(c) ==
    [credsOk |-> ResolveOutlookCredentials(c).defined,
     mailbox |-> IF ~OcField(c, "mailbox").has THEN "none"
                 ELSE IF Trim(c.mailbox.chars) = <<>> THEN "blank"
                 ELSE "set",
     draftOnly |-> "unset"]

\* The configurations: the fields of an absent section do not exist.
Configs ==
    {c \in [section : BOOLEAN,
            enabled : {"unset", "true", "false"},
            appId : OptStrings,
            appPassword : OptStrings,
            tenantId : OptStrings,
            mailbox : OptStrings,
            env : [id : EnvStrings, secret : EnvStrings, tenant : EnvStrings]] :
        ~c.section =>
            /\ c.enabled = "unset"
            /\ c.appId = Undefined /\ c.appPassword = Undefined
            /\ c.tenantId = Undefined /\ c.mailbox = Undefined}

NoOutput == [fn |-> "", kind |-> "", ids |-> <<>>, account |-> NoAccount,
             flag |-> FALSE, creds |-> NoCreds, draftOnly |-> "", hints |-> <<>>]

ConfigInit ==
    /\ conf \in Configs
    /\ confOut = <<>>
    /\ MonitorAtRest
    /\ ListAtRest
    /\ KeyAtRest
    /\ TokenAtRest
    /\ ClientAtRest
    /\ SinkAtRest
    /\ ToolsAtRest

besideConfig == <<monVars, lsVars, keyVars, tokVars, cliVars, sinkVars,
                  toolVars>>

CallListAccountIds ==
    /\ confOut = <<>>
    /\ confOut' = <<[NoOutput EXCEPT !.fn = "listAccountIds",
                                     !.kind = "returned",
                                     !.ids = ListAccountIds(conf)]>>
    /\ UNCHANGED <<conf, besideConfig>>

CallResolveAccount ==
    /\ confOut = <<>>
    /\ LET r == ResolveAccount(conf) IN
       confOut' = <<[NoOutput EXCEPT !.fn = "resolveAccount",
                                     !.kind = r.kind,
                                     !.account = r.account]>>
    /\ UNCHANGED <<conf, besideConfig>>

CallIsConfigured ==
    /\ confOut = <<>>
    /\ confOut' = <<[NoOutput EXCEPT !.fn = "isConfigured",
                                     !.kind = "returned",
                                     !.flag = IsConfigured(conf)]>>
    /\ UNCHANGED <<conf, besideConfig>>

\* resolveOutlookCredentials(resolveOutlookChannelConfig(cfg))
CallResolveCredentials ==
    /\ confOut = <<>>
    /\ confOut' = <<[NoOutput EXCEPT !.fn = "resolveOutlookCredentials",
                                     !.kind = "returned",
                                     !.creds = ResolveOutlookCredentials(conf)]>>
    /\ UNCHANGED <<conf, besideConfig>>

\* agentPrompt.messageToolHints({ cfg }).  draftOnly, which none of the
\* functions above reads, is the section's value at the call: undefined
\* when there is no section.
CallMessageToolHints(d) ==
    /\ confOut = <<>>
    /\ ~conf.section => d = "unset"
    /\ confOut' = <<[NoOutput EXCEPT !.fn = "messageToolHints",
                                     !.kind = "returned",
                                     !.draftOnly = d,
                                     !.hints = MessageToolHints([draftOnly |-> d])]>>
    /\ UNCHANGED <<conf, besideConfig>>

ConfigNext ==
    \/ CallListAccountIds
    \/ CallResolveAccount
    \/ CallIsConfigured
    \/ CallResolveCredentials
    \/ \E d \in {"unset", "true", "false"} : CallMessageToolHints(d)

ConfigSpec == ConfigInit /\ [][ConfigNext]_vars

\* ------------------------------------------------ the monitor on a backlog
\* The monitor started on a mailbox that holds a backlog, with nobody
\* aborting it.  Calls fail in the first cycles only (they eventually
\* succeed); the chunks of the replies are left out, and a cycle is started
\* only while there is unread mail, since one that finds none changes
\* nothing.
BacklogIds == 1..MaxBacklog

BacklogInit ==
    /\ cfg = [credsOk |-> TRUE, mailbox |-> "set", draftOnly |-> "unset"]
    /\ \E b \in 0..MaxBacklog :
          mail = [i \in BacklogIds |-> IF i <= b THEN "unread" ELSE "absent"]
    /\ aborted = FALSE
    /\ pc = "start"
    /\ timer = "none"
    /\ listeners = 0
    /\ cycle = 0
    /\ messages = <<>>
    /\ idx = 1
    /\ replyBuffer = <<>>
    /\ delivered = [i \in BacklogIds |-> <<>>]
    /\ outbox = <<>>
    /\ dispatched = [i \in BacklogIds |-> 0]
    /\ thrown = {}
    /\ idle = "clear"
    /\ pollErr = "none"
    /\ abortedInSleep = FALSE
    /\ ListAtRest
    /\ KeyAtRest
    /\ TokenAtRest
    /\ ClientAtRest
    /\ SinkAtRest
    /\ ConfigAtRest
    /\ ToolsAtRest

\* A call may fail in this cycle.
MayFail == cycle <= MaxFailCycles

BacklogListDone(outcome) ==
    /\ outcome = "fail" => MayFail
    /\ ListDone(outcome)

BacklogMarkReadDone(outcome, ctxOk) ==
    /\ (outcome = "fail" \/ ~ctxOk) => MayFail
    /\ MarkReadDone(outcome, ctxOk)

BacklogDispatchThrow ==
    /\ Cardinality(thrown) < MaxThrows
    /\ DispatchThrow

\* The sleep's timer fires while there is unread mail.
BacklogTimerFire ==
    /\ UNCHANGED otherVars
    /\ pc = "sleeping"
    /\ timer = "pending"
    /\ \E m \in BacklogIds : mail[m] = "unread"
    /\ timer' = "fired"
    /\ EnterLoop
    /\ UNCHANGED <<cfg, mail, aborted, listeners, replyBuffer, delivered,
                   outbox, dispatched, thrown, idle, abortedInSleep>>

BacklogNext ==
    \/ MonitorStart
    \/ \E o \in Outcomes : BacklogListDone(o)
    \/ \E o \in Outcomes, c \in BOOLEAN : BacklogMarkReadDone(o, c)
    \/ DispatchReturn
    \/ BacklogDispatchThrow
    \/ BacklogTimerFire

\* Every await settles and the timer fires.
BacklogSpec ==
    /\ BacklogInit
    /\ [][BacklogNext]_vars
    /\ WF_vars(BacklogNext)

\* ------------------------------------------------------------ runBenchmark
\* scripts/benchmark-models.ts, runBenchmark(models, concurrency): the for
\* loop over the queue, the `running` set of promises, and the models.  A
\* model is "running" from the call of runModel until runModel's promise
\* resolves, "finished" until the then-callback has deleted its promise
\* from `running`, and "settled" after.

\* Variant of RaceNeeded that waits only when the set is over the limit.
RaceWhenOver(size, concurrency) == size > concurrency
\* if (running.size >= concurrency)
RaceNeeded(size, concurrency) == size >= concurrency

\* The models being benchmarked.
Benchmarking(b) == {m \in 1..b.n : b.st[m] = "running"}

\* The for loop from position i up to its next await: Promise.race(running)
\* inside the loop, or Promise.all(running) behind it.
RECURSIVE LoopFrom(_, _)
LoopFrom(b, i) ==
    IF i > b.n
    THEN [b EXCEPT !.pc = "all", !.i = i, !.awaited = b.running]
    ELSE LET started == [b EXCEPT !.st[i] = "running",
                                  !.running = @ \cup {i}]
         IN IF RaceNeeded(Cardinality(started.running), b.conc)
            THEN [started EXCEPT !.pc = "race", !.i = i + 1,
                                 !.awaited = started.running]
            ELSE LoopFrom(started, i + 1)

besideBench == <<monVars, lsVars, keyVars, tokVars, cliVars, sinkVars,
                 confVars, svc>>

BenchInit ==
    /\ \E n \in 0..MaxModels, c \in 1..MaxConcurrency :
          bench = [pc |-> "start", conc |-> c, n |-> n, i |-> 1,
                   st |-> [m \in 1..n |-> "queued"],
                   running |-> {}, awaited |-> {}]
    /\ svc = NoService
    /\ MonitorAtRest
    /\ ListAtRest
    /\ KeyAtRest
    /\ TokenAtRest
    /\ ClientAtRest
    /\ SinkAtRest
    /\ ConfigAtRest

\* runBenchmark is called and runs to its first await.
BenchStart ==
    /\ bench.pc = "start"
    /\ bench' = LoopFrom(bench, 1)
    /\ UNCHANGED besideBench

\* runModel(m) has gone through the scenarios and returns.
ModelFinishes(m) ==
    /\ bench.pc # "idle"
    /\ m \in 1..bench.n
    /\ bench.st[m] = "running"
    /\ bench' = [bench EXCEPT !.st[m] = "finished"]
    /\ UNCHANGED besideBench

\* .then(() => { running.delete(p) }), after which p is settled.
ThenCallback(m) ==
    /\ bench.pc # "idle"
    /\ m \in 1..bench.n
    /\ bench.st[m] = "finished"
    /\ bench' = [bench EXCEPT !.st[m] = "settled", !.running = @ \ {m}]
    /\ UNCHANGED besideBench

\* await Promise.race(running) resumes: one of the promises raced has
\* settled, and the loop goes on.
RaceResumes ==
    /\ bench.pc = "race"
    /\ \E m \in bench.awaited : bench.st[m] = "settled"
    /\ bench' = LoopFrom([bench EXCEPT !.awaited = {}], bench.i)
    /\ UNCHANGED besideBench

\* await Promise.all(running) resumes: the summary is printed.
AllResumes ==
    /\ bench.pc = "all"
    /\ \A m \in bench.awaited : bench.st[m] = "settled"
    /\ bench' = [bench EXCEPT !.pc = "done", !.awaited = {}]
    /\ UNCHANGED besideBench

BenchNext ==
    \/ BenchStart
    \/ \E m \in 1..MaxModels : ModelFinishes(m)
    \/ \E m \in 1..MaxModels : ThenCallback(m)
    \/ RaceResumes
    \/ AllResumes

BenchSpec == BenchInit /\ [][BenchNext]_vars

\* -------------------------------------------------------- `openclaw start`
\* scripts/openclaw-service.sh, start_services: start_mlx, then
\* start_gateway.  The MLX server process is "stopped", "loading" (alive,
\* not answering /v1/models) or "ready"; the script is at its start, in the
\* readiness loop, or done with an exit status.

besideService == <<monVars, lsVars, keyVars, tokVars, cliVars, sinkVars,
                   confVars, bench>>

ServiceInit ==
    /\ \E m \in {"stopped", "loading", "ready"}, g \in {"stopped", "running"} :
          svc = [pc |-> "start", mlx |-> m, gateway |-> g, checks |-> 0,
                 answered |-> FALSE, launchedMlx |-> FALSE,
                 launchedGateway |-> FALSE, exit |-> -1]
    /\ bench = NoBench
    /\ MonitorAtRest
    /\ ListAtRest
    /\ KeyAtRest
    /\ TokenAtRest
    /\ ClientAtRest
    /\ SinkAtRest
    /\ ConfigAtRest

\* is_running "${MLX_PID_FILE}": the pid file names a live process.
IsRunning(state) == state # "stopped"

\* start_gateway, and the end of start_services.
StartGateway(s) ==
    IF IsRunning(s.gateway)
    THEN [s EXCEPT !.pc = "done", !.exit = 0]
    ELSE [s EXCEPT !.pc = "done", !.exit = 0, !.gateway = "running",
                   !.launchedGateway = TRUE]

\* `openclaw start` up to the first readiness check: start_mlx returns 0 at
\* once when the server is already running, else launches it.
StartServices ==
    /\ svc.pc = "start"
    /\ svc' = IF IsRunning(svc.mlx)
              THEN StartGateway(svc)
              ELSE [svc EXCEPT !.pc = "checking", !.mlx = "loading",
                               !.launchedMlx = TRUE]
    /\ UNCHANGED besideService

\* One turn of the readiness loop: check_mlx_ready, then return 0 and go on
\* to start_gateway, or sleep 1; after the last turn return 1 and exit 1.
ReadyCheck ==
    /\ svc.pc = "checking"
    /\ svc' = IF svc.mlx = "ready"
              THEN StartGateway([svc EXCEPT !.checks = @ + 1,
                                            !.answered = TRUE])
              ELSE IF svc.checks + 1 = ReadyChecks
              THEN [svc EXCEPT !.checks = @ + 1, !.pc = "done", !.exit = 1]
              ELSE [svc EXCEPT !.checks = @ + 1]
    /\ UNCHANGED besideService

\* The MLX server has loaded its model and answers.
MlxBecomesReady ==
    /\ svc.pc # "idle"
    /\ svc.mlx = "loading"
    /\ svc' = [svc EXCEPT !.mlx = "ready"]
    /\ UNCHANGED besideService

\* The MLX server process exits.
MlxExits ==
    /\ svc.pc # "idle"
    /\ IsRunning(svc.mlx)
    /\ svc' = [svc EXCEPT !.mlx = "stopped"]
    /\ UNCHANGED besideService

ServiceNext ==
    \/ StartServices
    \/ ReadyCheck
    \/ MlxBecomesReady
    \/ MlxExits

ServiceSpec == ServiceInit /\ [][ServiceNext]_vars

\* The provider requests sent for the n-th operation invoked.
SentFor(n) == {i \in 1..Len(sent) : sent[i].n = n}

\* C21: an operation of graph.ts whose provider request was answered returns
\* normally exactly when the status is 2xx, with the result taken from the
\* response; on any other status it throws an error that names the
\* operation and carries the status and the response text.
C21_ThrowsUnless2xx ==
    (opc.pc = "done" /\ opc.status # 0) =>
        LET name == CASE opc.op = "list" -> "list messages"
                      [] opc.op = "markRead" -> "mark-as-read"
                      [] opc.op = "reply" -> "reply"
                      [] opc.op = "createReply" -> "createReply"
                      [] opc.op = "sendMail" -> "sendMail"
        IN /\ opc.status \in 200..299 =>
                 /\ opc.result.kind = "returned"
                 /\ opc.op \in {"list", "createReply"} => opc.result.value = opc.text
           /\ opc.status \notin 200..299 =>
                 /\ opc.result.kind = "threw"
                 /\ opc.result.error =
                       "outlook " \o name \o " failed " \o ToString(opc.status)
                          \o ": " \o opc.text

\* createDraftReply was answered 404 and threw with the status and the text.
C21_Witness ==
    /\ opc.pc = "done"
    /\ opc.op = "createReply"
    /\ opc.status = 404
    /\ opc.result.error = "outlook createReply failed 404: r2"

\* C22: every provider request carries a token that getGraphAccessToken
\* returned, from the cache or from a token request of the operation that
\* succeeded; while the token is awaited no provider request of the
\* operation is out, and when the token request fails the operation throws
\* that error and none is ever sent.
C22_TokenBeforeRequest ==
    /\ \A i \in 1..Len(sent) :
          /\ sent[i].bearer \in 1..Len(requests)
          /\ requests[sent[i].bearer].status = "ok"
          /\ sent[i].op = mailCalls[sent[i].n].op
    /\ \A n \in 1..Len(mailCalls) : Cardinality(SentFor(n)) <= 1
    /\ opc.pc = "token" => SentFor(Len(mailCalls)) = {}
    /\ opc.pc = "provider" => Cardinality(SentFor(Len(mailCalls))) = 1
    /\ (opc.pc = "done" /\ opc.req # 0
           /\ requests[opc.req].status \in {"non2xx", "network"}) =>
          /\ SentFor(Len(mailCalls)) = {}
          /\ opc.result.kind = "threw"
          /\ opc.result.error \in {"outlook token request failed", "fetch failed"}

\* The first operation got its token and sent its request; the second one's
\* token request was refused and it threw without a provider request.
C22_Witness ==
    /\ Len(mailCalls) = 2
    /\ Len(sent) = 1
    /\ sent[1].n = 1
    /\ opc.pc = "done"
    /\ opc.req = 2
    /\ requests[2].status = "non2xx"
    /\ opc.result.kind = "threw"

C24_DraftModeHoldsBack ==
    Len(MessageToolHints(cfg)) = 2 =>
        \A i \in 1..Len(sent) : sent[i].op # "sendMail"

\* C25: without resolvable credentials or with the mailbox missing or blank,
\* sendText throws and no token request and no provider request is ever
\* sent; a token or transport failure of sendNewMail reaches the caller of
\* sendText as that error, after the one attempt.
C25_SendTextFailures ==
    /\ (~cfg.credsOk \/ cfg.mailbox \in {"none", "blank"}) =>
          /\ sent = <<>> /\ requests = <<>> /\ mailCalls = <<>>
          /\ snd.pc \in {"idle", "threw"}
          /\ snd.pc = "threw" =>
                snd.error = IF ~cfg.credsOk
                            THEN "outlook credentials not configured"
                            ELSE "outlook mailbox not configured"
    /\ (cfg.credsOk /\ cfg.mailbox = "set" /\ opc.pc = "done"
           /\ mailCalls[Len(mailCalls)].by = "sendText") =>
          /\ opc.result.kind = "threw" =>
                (snd.pc = "threw" /\ snd.error = opc.result.error)
          /\ opc.result.kind = "returned" => snd.pc = "returned"
          /\ Cardinality(SentFor(Len(mailCalls))) <= 1

\* The token request of sendText's sendNewMail was refused: sendText threw
\* that error and no provider request went out.
C25_Witness ==
    /\ snd.pc = "threw"
    /\ snd.error = "outlook token request failed"
    /\ Len(mailCalls) = 1
    /\ Len(requests) = 1
    /\ sent = <<>>

\* C26: after a poll cycle failed (listUnreadMessages or markAsRead threw)
\* with no abort pending, the monitor has logged the error and sleeps with
\* the poll timer pending, and the timer's firing starts the next cycle; it
\* is never stopped and never polling again before the timer has fired.
C26_ErrorThenSleepThenCycle ==
    /\ (pollErr # "none" /\ ~aborted) =>
          /\ pc = "sleeping"
          /\ timer = "pending"
          /\ cycle < MaxCycles => ENABLED TimerFire
    /\ (pc = "listing" /\ cycle > 1) => timer = "fired"

\* The first cycle failed in listUnreadMessages: the monitor sleeps and the
\* timer will start the second cycle.
C26_Witness ==
    /\ pollErr = "list"
    /\ cycle = 1
    /\ ~aborted
    /\ pc = "sleeping"
    /\ timer = "pending"
    /\ ENABLED TimerFire

\* The chunks handed to the sink after flush i - 1 up to flush i.
ChunksOfFlush(i) ==
    SubSeq(delivered[outbox[i].id],
           (IF i = 1 THEN 0 ELSE outbox[i - 1].n) + 1, outbox[i].n)

\* C27: every deliver call issues at most one createDraftReply or
\* replyToMessage call, and the body of a call is made of the texts handed
\* over since the flush before it: the text of a flush whose call failed is
\* in no later call, and the buffer holds none of it.
C27_FailedFlushNotResent ==
    /\ Len(flushLog) = Len(outbox)
    /\ \A i, j \in 1..Len(outbox) : i < j => outbox[i].n < outbox[j].n
    /\ \A i \in 1..Len(outbox) :
          outbox[i].body = JoinBlank(TextsOf(ChunksOfFlush(i)))
    /\ \A i \in 1..Len(outbox) : flushLog[i] = "fail" =>
          /\ \A j \in 1..Len(outbox) : j # i => outbox[j].body # outbox[i].body
          /\ \A k \in 1..Len(replyBuffer) :
                \A c \in 1..Len(ChunksOfFlush(i)) :
                    replyBuffer[k] # ChunksOfFlush(i)[c].text

\* The call of the first flush failed and a later flush has made its call.
C27_Witness ==
    /\ Len(outbox) = 2
    /\ flushLog[1] = "fail"
    /\ outbox[1].body = "a"
    /\ outbox[2].body = "b"

\* An optional string of the section, or failing it the environment
\* variable, is non-empty once trimmed.
Resolves(c, f, e) ==
    \/ c.section /\ c[f].has /\ Trim(c[f].chars) # <<>>
    \/ c.env[e].has /\ Trim(c.env[e].chars) # <<>>
AllResolve(c) ==
    /\ Resolves(c, "appId", "id")
    /\ Resolves(c, "appPassword", "secret")
    /\ Resolves(c, "tenantId", "tenant")
MailboxGiven(c) == c.section /\ c.mailbox.has /\ Trim(c.mailbox.chars) # <<>>

\* C28: resolveAccount never throws; it returns the full account when the
\* channel is not disabled, the three credentials resolve and the trimmed
\* mailbox is non-empty, and undefined in every other case, the absent
\* section with credentials from the environment included.
C28_ResolveAccountTotal ==
    \A i \in 1..Len(confOut) : confOut[i].fn = "resolveAccount" =>
        /\ confOut[i].kind = "returned"
        /\ confOut[i].account.defined <=>
              /\ ~(conf.section /\ conf.enabled = "false")
              /\ AllResolve(conf)
              /\ MailboxGiven(conf)
        /\ confOut[i].account.defined =>
              /\ confOut[i].account.mailbox = Trim(conf.mailbox.chars)
              /\ Len(confOut[i].account.appId) > 0
              /\ Len(confOut[i].account.appSecret) > 0
              /\ Len(confOut[i].account.tenantId) > 0

\* C29: listAccountIds returns ["default"] unless channels.outlook.enabled
\* is explicitly false, and [] then; an absent section counts as enabled.
C29_ListAccountIds ==
    \A i \in 1..Len(confOut) : confOut[i].fn = "listAccountIds" =>
        /\ confOut[i].kind = "returned"
        /\ confOut[i].ids = IF conf.section /\ conf.enabled = "false"
                            THEN <<>>
                            ELSE <<"default">>

\* listAccountIds answered ["default"] for a section without `enabled`.
C29_Witness ==
    /\ conf.section
    /\ conf.enabled = "unset"
    /\ Len(confOut) = 1
    /\ confOut[1].fn = "listAccountIds"
    /\ confOut[1].ids = <<"default">>

\* C30: isConfigured is true exactly when the section exists, the three
\* credentials resolve and the trimmed mailbox is non-empty, which is when
\* the monitor passes its start precondition.
C30_IsConfigured ==
    \A i \in 1..Len(confOut) : confOut[i].fn = "isConfigured" =>
        /\ confOut[i].kind = "returned"
        /\ confOut[i].flag <=>
              (conf.section /\ AllResolve(conf) /\ MailboxGiven(conf))
        /\ confOut[i].flag <=> PreconditionOk(MonitorConfigOf(conf))

\* isConfigured answered false for a mailbox of blanks with credentials
\* taken from the environment.
C30_Witness ==
    /\ conf.section
    /\ conf.mailbox = Str(<<" ">>)
    /\ conf.appId = Undefined
    /\ AllResolve(conf)
    /\ Len(confOut) = 1
    /\ confOut[1].fn = "isConfigured"
    /\ ~confOut[1].flag

\* C31: messageToolHints returns the send-email hint first and, after it,
\* the draft-only warning exactly when draftOnly is not explicitly false,
\* which is when the monitor's reply sink creates drafts.
C31_HintFollowsDraftOnly ==
    \A i \in 1..Len(confOut) : confOut[i].fn = "messageToolHints" =>
        LET h == confOut[i].hints
            d == confOut[i].draftOnly
        IN /\ Len(h) >= 1
           /\ h[1] = "channel=outlook sends email"
           /\ IF d \in {"unset", "true"}
              THEN /\ Len(h) = 2
                   /\ h[2] = "outlook is in draft-only mode: sent messages land in Drafts for review"
              ELSE Len(h) = 1
           /\ Len(h) = 2 <=> FlushOp(DraftOnlyOf([draftOnly |-> d])) = "createReply"

\* With draftOnly absent from the section, both hints were returned.
C31_Witness ==
    /\ conf.section
    /\ Len(confOut) = 1
    /\ confOut[1].fn = "messageToolHints"
    /\ confOut[1].draftOnly = "unset"
    /\ Len(confOut[1].hints) = 2

\* The value one credential resolves to: the trimmed configuration value
\* when it is not blank, else the trimmed environment variable.
Resolved(c, f, e) ==
    IF c.section /\ c[f].has /\ Trim(c[f].chars) # <<>>
    THEN Trim(c[f].chars)
    ELSE Trim(c.env[e].chars)

\* C32: resolveOutlookCredentials takes each of appId, appPassword and
\* tenantId from the configuration when it is there and not blank, else
\* from its environment variable, trimmed; it returns the three together
\* when all are non-empty and undefined otherwise, never a part of them.
C32_CredentialsFallBack ==
    \A i \in 1..Len(confOut) : confOut[i].fn = "resolveOutlookCredentials" =>
        LET r == confOut[i].creds IN
        /\ r.defined <=> AllResolve(conf)
        /\ r.defined =>
              /\ r.appId = Resolved(conf, "appId", "id")
              /\ r.appSecret = Resolved(conf, "appPassword", "secret")
              /\ r.tenantId = Resolved(conf, "tenantId", "tenant")
        /\ ~r.defined => r = NoCreds

\* appId is blank in the configuration and comes from the environment,
\* while the other two come from the configuration.
C32_Witness ==
    /\ conf.section
    /\ conf.appId = Str(<<" ">>)
    /\ Len(confOut) = 1
    /\ confOut[1].fn = "resolveOutlookCredentials"
    /\ confOut[1].creds = [defined |-> TRUE, appId |-> <<"e">>,
                           appSecret |-> <<"x">>, tenantId |-> <<"x">>]

\* C33: once the signal is aborted the monitor eventually returns, given
\* that the call or dispatch it awaits settles; the abort itself moves the
\* monitor nowhere and undoes nothing on the provider.
C33_StopsAfterAbort ==
    /\ aborted ~> pc = "stopped"
    /\ [][(~aborted /\ aborted') =>
            (pc' = pc /\ mail' = mail /\ outbox' = outbox /\ idx' = idx)]_vars

\* The signal was aborted while the first of two listed messages was being
\* processed: that message was marked read and dispatched to the end, and
\* the monitor has returned.
C33_Witness ==
    /\ aborted
    /\ ~abortedInSleep
    /\ pc = "stopped"
    /\ cycle = 1
    /\ Len(messages) = 2
    /\ idx = 2
    /\ mail[messages[1]] = "read"
    /\ dispatched[messages[1]] = 1

\* The ids listUnreadMessages would return now.
UnreadListed == {ListUnreadResponse(mail, DefaultTop)[i] :
                    i \in 1..Len(ListUnreadResponse(mail, DefaultTop))}

\* C34: a message whose markAsRead call failed has not been dispatched and
\* has received no chunk; the cycle is over, the message is still unread on
\* the provider and listUnreadMessages returns it again.  No message is
\* dispatched while unread.
C34_FailedMarkReadNotDispatched ==
    /\ pollErr = "markRead" =>
          LET m == messages[idx] IN
          /\ pc \in {"sleeping", "stopped"}
          /\ mail[m] = "unread"
          /\ dispatched[m] = 0
          /\ delivered[m] = <<>>
          /\ m \in UnreadListed
    /\ \A m \in MsgIds : mail[m] = "unread" =>
          (dispatched[m] = 0 /\ m \in UnreadListed)

\* markAsRead failed for the second message of the first cycle, after the
\* first was dispatched; the timer will start the cycle that lists it again.
C34_Witness ==
    /\ pollErr = "markRead"
    /\ ~aborted
    /\ cycle = 1
    /\ idx = 2
    /\ dispatched[messages[1]] = 1
    /\ mail[messages[2]] = "unread"
    /\ ENABLED TimerFire

\* C35 as stated: with no abort and calls that eventually succeed, every
\* message of the backlog is in the end marked read and dispatched.
C35_AllDispatched ==
    <>[](\A m \in BacklogIds :
            mail[m] # "absent" => (mail[m] = "read" /\ dispatched[m] = 1))

\* C35: with no abort and calls that eventually succeed, every message of
\* the backlog is in the end marked read, also when there are more than the
\* twenty one cycle lists; a message is marked read only when all older ones
\* are, and it is then dispatched, once, unless building its inbound context
\* throws, which ends the cycle and leaves the message read and dropped.
C35_BacklogDrained ==
    /\ <>[](\A m \in BacklogIds : mail[m] # "unread")
    /\ [][\A m \in BacklogIds :
            (mail[m] = "unread" /\ mail'[m] = "read") =>
               /\ \A k \in BacklogIds : k < m => mail[k] = "read"
               /\ dispatched'[m] = 1 \/ pollErr' = "ctx"]_vars
    /\ [](\A m \in BacklogIds :
            /\ dispatched[m] <= 1
            /\ dispatched[m] = 1 => mail[m] = "read"
            /\ Len(messages) <= DefaultTop)

\* A backlog of twenty-one: the first cycle listed twenty, the second one
\* listed the last message, and all are read and dispatched.
C35_Witness ==
    /\ cycle = 2
    /\ messages = <<DefaultTop + 1>>
    /\ pc = "sleeping"
    /\ \A m \in 1..(DefaultTop + 1) : mail[m] = "read" /\ dispatched[m] = 1

\* C36: once the signal is aborted the monitor begins no further message:
\* it marks read and dispatches nothing but the message it was processing
\* when the abort came, so the later messages of the cycle stay unread.
C36_NothingBegunAfterAbort ==
    [][aborted =>
          /\ pc' = "markRead" => (pc = "markRead" /\ idx' = idx)
          /\ \A m \in MsgIds :
                ((mail[m] # "read" /\ mail'[m] = "read")
                    \/ dispatched'[m] # dispatched[m]) =>
                   (pc = "markRead" /\ m = messages[idx])
          /\ \A j \in (idx + 1)..Len(messages) :
                mail[messages[j]] = "unread" => mail'[messages[j]] = "unread"]_vars

\* The abort came while the first of two listed messages was processed: the
\* monitor has returned and the second message is unread and undispatched.
C36_Witness ==
    /\ aborted
    /\ ~abortedInSleep
    /\ pc = "stopped"
    /\ Len(messages) = 2
    /\ idx = 2
    /\ mail[messages[1]] = "read"
    /\ mail[messages[2]] = "unread"
    /\ dispatched[messages[2]] = 0

\* The position of the last chunk of message m before position n at which
\* a provider call was made, or 0.
FlushBefore(m, n) ==
    LET at == {outbox[i].n : i \in {k \in 1..Len(outbox) :
                                     outbox[k].id = m /\ outbox[k].n < n}}
    IN IF at = {} THEN 0 ELSE CHOOSE x \in at : \A y \in at : y <= x

\* C37: no createDraftReply or replyToMessage call has an empty body, the
\* buffer never holds an empty text, and a final chunk for which no call was
\* made found nothing buffered since the call before it.
C37_NoEmptyBody ==
    /\ \A i \in 1..Len(outbox) :
          /\ outbox[i].body # ""
          /\ delivered[outbox[i].id][outbox[i].n].kind = "final"
    /\ \A k \in 1..Len(replyBuffer) : replyBuffer[k] # ""
    /\ \A m \in MsgIds : \A n \in 1..Len(delivered[m]) :
          (/\ delivered[m][n].kind = "final"
           /\ \A i \in 1..Len(outbox) : ~(outbox[i].id = m /\ outbox[i].n = n)) =>
             TextsOf(SubSeq(delivered[m], FlushBefore(m, n) + 1, n)) = <<>>

\* Two chunks without text, the second of them final, and then a final
\* chunk with text: one call, made for the third chunk.
C37_Witness ==
    /\ Len(delivered[1]) = 3
    /\ delivered[1][1] = [text |-> "", kind |-> "block"]
    /\ delivered[1][2] = [text |-> "", kind |-> "final"]
    /\ delivered[1][3].kind = "final"
    /\ Len(outbox) = 1
    /\ outbox[1].n = 3
    /\ outbox[1].body = "c"

\* C38: the monitor holds at most one "abort" listener on the signal, and
\* none of a sleep that has ended.
C38_AtMostOneListener ==
    /\ listeners <= 1
    /\ pc # "sleeping" => listeners = 0

\* C39: for every concurrency of 1 or more, never more than `concurrency`
\* models are being benchmarked at a time, nor are more promises in the
\* `running` set; and no model is left out.
C39_ConcurrencyLimit ==
    bench.pc # "idle" =>
        /\ Cardinality(Benchmarking(bench)) <= bench.conc
        /\ Cardinality(bench.running) <= bench.conc
        /\ Benchmarking(bench) \subseteq bench.running
        /\ bench.pc = "done" => \A m \in 1..bench.n : bench.st[m] = "settled"

\* Four models at concurrency 2: the first two have settled, the last two
\* are being benchmarked, and the loop awaits one of them.
C39_Witness ==
    /\ bench.pc = "race"
    /\ bench.i = 5
    /\ bench.conc = 2
    /\ bench.n = 4
    /\ bench.st = <<"settled", "settled", "running", "running">>

\* C40: `openclaw start` launches the gateway only after a readiness check
\* of the MLX server was answered, and when none of the 60 checks is
\* answered it exits with failure and has not launched the gateway.
C40_GatewayAfterReady ==
    svc.pc # "idle" =>
        /\ svc.launchedGateway => svc.answered
        /\ (svc.pc = "done" /\ ~svc.answered) =>
              (svc.exit = 1 /\ svc.checks = ReadyChecks /\ ~svc.launchedGateway)

====
